---------------------------- MODULE Spec2Model ----------------------------
(***************************************************************************)
(* A model of the TSP visualiser's replayable core:                        *)
(*   - the live exhaustive search runBruteForceLive with its cooperative   *)
(*     cancellation flag (modules/bruteForceRealtime.js, kept in           *)
(*     src/src/modules/ui-manager.js lines 212-535);                       *)
(*   - the playback controller StepController (modules/stepController.js,  *)
(*     kept in src/src/modules/ui-manager.js lines 537-791).               *)
(* City ids are 0-based as in the source; TLA+ sequences are 1-based, so   *)
(* the city with id c is cities[c + 1].                                    *)
(***************************************************************************)
EXTENDS Integers, Sequences, FiniteSets, TLC

VARIABLES
    \* ---- live search (runBruteForceLive) ----
    cities,               \* the city list handed to the run: a sequence of <<x, y>>
    grain,                \* the coordinates x and y count steps of 1/grain of a unit
    livePc,               \* "init" | "suspended" | "resolved" | "rejected"
    permutationsChecked,  \* local permutationsChecked
    bestDistance,         \* local bestDistance
    bestRoute,            \* local bestRoute (<<>> models null)
    isCancelled,          \* state.bruteForceController.isCancelled
    progressLog,          \* every argument the onProgress callback received, in order
    cancelledAt,          \* history: permutationsChecked when the flag was set, -1 before
    renders,              \* history: the number of renderBruteForceLive calls made
    \* ---- playback controller (StepController) ----
    steps,                \* this.steps: the sequence of step types
    currentStepIndex,     \* this.currentStepIndex
    isPlaying,            \* this.isPlaying
    playbackSpeed,        \* this.playbackSpeed
    playbackInterval,     \* this.playbackInterval (NoTimer models null)
    timers,               \* the host's live setInterval timers: records [id, ms]
    lastOp,               \* history: the operation that ran last
    lastReturn,           \* history: what that operation returned ("none" | TRUE | FALSE)
    hooks,                \* history: the observer hooks that operation invoked, in order
    before,               \* history: the index and the playing flag before that operation
    quiet,                \* history: the caller has promised to make no further call
    visited,              \* history: the indices the ticks reached since that promise
    \* ---- solvers (greedyTSP, twoOpt, bruteForceTSP of tsp-solver.js) ----
    solverPc,             \* "idle" | "twoOpt" (inside the while loop) | "done"
    solverCall,           \* the call made: [fn, initialRoute]
    solverResult,         \* what the call returned, or that it threw
    twoOptLocals,         \* twoOpt's locals: [route, bestDistance, iterations]
    swapLog,              \* history: each accepted swap: [pre, post] distances, [i, k], route before
    \* ---- application (the page script) ----
    isAnimating,          \* state.isAnimating, the busy flag
    alerts,               \* the messages alert() has shown, in order
    stateCities,          \* state.cities: the list the page holds now
    bruteForceController, \* state.bruteForceController is not null
    results,              \* state.greedyDistance, twoOptDistance, optimalDistance (0: none),
                          \* and history: the list the optimal one was found on
    diagnostics,          \* history: a heuristic-beats-optimal diagnostic was logged
    runAllPc              \* where runAllAlgorithms waits: "idle" | "greedy done" | "twoOpt done"

liveVars == <<cities, grain, livePc, permutationsChecked, bestDistance, bestRoute,
              isCancelled, progressLog, cancelledAt, renders>>
ctlVars == <<steps, currentStepIndex, isPlaying, playbackSpeed, playbackInterval,
             timers, lastOp, lastReturn, hooks, before, quiet, visited>>
solverVars == <<solverPc, solverCall, solverResult, twoOptLocals, swapLog>>
appVars == <<isAnimating, alerts, stateCities, bruteForceController, results, diagnostics,
             runAllPc>>
vars == <<liveVars, ctlVars, solverVars, appVars>>

(***************************************************************************)
(* Bounds of the model.                                                    *)
(***************************************************************************)
MaxCities == 4
MaxSteps == 3
\* the finest city coordinates of the model: steps of 1/FineGrain of a unit,
\* half of EPSILON
FineGrain == 2000000000

(***************************************************************************)
(* Program constants.                                                      *)
(***************************************************************************)
\* bruteForceRealtime: if (n > 9) throw
OPTIMAL_CITY_LIMIT == 9
\* let bestDistance = Infinity: a value above every route length of the model
Infinity == 1000000
\* StepController: this.playbackSpeed = 500
DEFAULT_PLAYBACK_SPEED == 500
\* StepController.setPlaybackSpeed: Math.max(100, ms)
MIN_PLAYBACK_SPEED == 100
\* Fixed-point resolution of the model's real numbers: 1/SCALE
SCALE == 100

(***************************************************************************)
(* Geometry.  A coordinate counts steps of 1/grain of a unit of length; a   *)
(* distance is a fixed-point number with SCALE units per step; Math.sqrt   *)
(* is the integer square root of the scaled argument.                      *)
(***************************************************************************)
Points == { <<0, 0>>, <<0, 3>>, <<4, 3>>, <<4, 0>>, <<1, 1>> }

\* the test cities of _runConsistencyTest: a square of side 10
SquareCities == << <<0, 0>>, <<0, 10>>, <<10, 10>>, <<10, 0>> >>

\* the largest squared distance between two points
MaxSquare ==
    LET all == Points \cup { SquareCities[i] : i \in 1..Len(SquareCities) }
    IN  CHOOSE m \in { (p[1] - q[1]) * (p[1] - q[1]) + (p[2] - q[2]) * (p[2] - q[2]) :
                       p \in all, q \in all } :
            \A p \in all, q \in all :
                (p[1] - q[1]) * (p[1] - q[1]) + (p[2] - q[2]) * (p[2] - q[2]) <= m

SqrtTable ==
    [v \in 0..MaxSquare |->
        CHOOSE r \in 0..(v * SCALE) :
            r * r <= v * SCALE * SCALE /\ (r + 1) * (r + 1) > v * SCALE * SCALE]

\* Math.sqrt
Sqrt(v) == SqrtTable[v]

\* the inline edge length of calculatePathDistance
EdgeLength(from, to) ==
    LET dx == to[1] - from[1]
        dy == to[2] - from[2]
    IN  Sqrt(dx * dx + dy * dy)

RECURSIVE SumEdges(_, _, _)
SumEdges(path, cs, i) ==
    IF i > Len(path) - 1 THEN 0
    ELSE EdgeLength(cs[path[i] + 1], cs[path[i + 1] + 1]) + SumEdges(path, cs, i + 1)

\* calculatePathDistance(path, cities): the consecutive edges, then the edge
\* from the last element back to the first
calculatePathDistance(path, cs) ==
    SumEdges(path, cs, 1) + EdgeLength(cs[path[Len(path)] + 1], cs[path[1] + 1])

(***************************************************************************)
(* Permutation enumeration.                                                *)
(***************************************************************************)
RemoveAt(s, i) == SubSeq(s, 1, i - 1) \o SubSeq(s, i + 1, Len(s))

RECURSIVE Concat(_)
Concat(ss) == IF ss = <<>> THEN <<>> ELSE Head(ss) \o Concat(Tail(ss))

Prefixed(head, perms) == [j \in 1..Len(perms) |-> <<head>> \o perms[j]]

\* a plausible slip: the outer loop stops one element early
RECURSIVE generatePermutationsShort(_)
generatePermutationsShort(array) ==
    IF Len(array) <= 1 THEN << array >>
    ELSE Concat([i \in 1..(Len(array) - 1) |->
                    Prefixed(array[i], generatePermutationsShort(RemoveAt(array, i)))])

\* function* generatePermutations(array): the yielded arrays, in yield order
RECURSIVE generatePermutations(_)
generatePermutations(array) ==
    IF Len(array) <= 1 THEN << array >>
    ELSE Concat([i \in 1..Len(array) |->
                    Prefixed(array[i], generatePermutations(RemoveAt(array, i)))])

RECURSIVE Factorial(_)
Factorial(n) == IF n <= 1 THEN 1 ELSE n * Factorial(n - 1)

\* let totalPerms = 1; for (let i = 2; i <= n; i++) totalPerms *= i
totalPerms == Factorial(Len(cities))

\* Array.from({ length: n }, (_, i) => i)
allCities(n) == [i \in 1..n |-> i - 1]

\* what generatePermutations(allCities) yields, for each n of the model
Yielded == [n \in 0..MaxCities |-> generatePermutations(allCities(n))]


(***************************************************************************)
(* runBruteForceLive.  JavaScript runs each stretch between two awaits to  *)
(* completion, so a stretch is one action.                                 *)
(***************************************************************************)
NoCancel == 0 - 1

\* the city lists a run can be given: up to MaxCities distinct points
CityLists ==
    UNION { { cs \in [1..n -> Points] : \A i, j \in 1..n : i # j => cs[i] # cs[j] } :
            n \in 0..MaxCities }

LiveInit ==
    /\ cities \in CityLists
    /\ grain = 1
    /\ livePc = "init"
    /\ permutationsChecked = 0
    /\ bestDistance = Infinity
    /\ bestRoute = <<>>
    /\ isCancelled = FALSE          \* createBruteForceController(): isCancelled: false
    /\ progressLog = <<>>
    /\ cancelledAt = NoCancel
    /\ renders = 0

\* the render made before the loop, in the stretch that starts the run
InitialRender == IF livePc = "init" THEN 1 ELSE 0

\* a plausible slip: the incumbent is replaced when the candidate is longer
IsBetterWrong(distance, incumbent) == distance > incumbent

\* if (distance < bestDistance)
IsBetter(distance, incumbent) == distance < incumbent

\* a plausible slip: the progress callback is called only when the incumbent
\* changes
LoopBodyQuiet(k, cancelInCallback) ==
    LET perm == Yielded[Len(cities)][k]
        fullPath == perm \o << perm[1] >>
        distance == calculatePathDistance(fullPath, cities)
        better == IsBetter(distance, bestDistance)
        newBest == IF better THEN distance ELSE bestDistance
    IN  /\ permutationsChecked' = permutationsChecked + 1
        /\ bestDistance' = newBest
        /\ bestRoute' = IF better THEN fullPath ELSE bestRoute
        /\ progressLog' = IF better
                          THEN Append(progressLog,
                                      [permutationsChecked |-> permutationsChecked + 1,
                                       totalPermutations |-> totalPerms,
                                       currentDistance |-> distance,
                                       bestDistance |-> newBest])
                          ELSE progressLog
        /\ isCancelled' = (isCancelled \/ (better /\ cancelInCallback))
        /\ cancelledAt' = IF ~isCancelled /\ better /\ cancelInCallback
                          THEN permutationsChecked + 1 ELSE cancelledAt
        /\ renders' = renders + InitialRender + 1
        /\ livePc' = "suspended"

\* One pass through the loop body for the k-th yielded permutation, from
\* permutationsChecked++ to the await.  The progress callback runs inside
\* it and is free to set the flag (cancelInCallback).
LoopBody(k, cancelInCallback) ==
    LET perm == Yielded[Len(cities)][k]
        fullPath == perm \o << perm[1] >>
        distance == calculatePathDistance(fullPath, cities)
        better == IsBetter(distance, bestDistance)
        newBest == IF better THEN distance ELSE bestDistance
    IN  /\ permutationsChecked' = permutationsChecked + 1
        /\ bestDistance' = newBest
        /\ bestRoute' = IF better THEN fullPath ELSE bestRoute
        /\ progressLog' = Append(progressLog,
                                 [permutationsChecked |-> permutationsChecked + 1,
                                  totalPermutations |-> totalPerms,
                                  currentDistance |-> distance,
                                  bestDistance |-> newBest])
        /\ isCancelled' = (isCancelled \/ cancelInCallback)
        /\ cancelledAt' = IF ~isCancelled /\ cancelInCallback
                          THEN permutationsChecked + 1 ELSE cancelledAt
        /\ renders' = renders + InitialRender + 1
        /\ livePc' = "suspended"

\* the final render and the return after the loop
LiveReturn ==
    /\ livePc' = "resolved"
    /\ renders' = renders + InitialRender + 1
    /\ UNCHANGED <<permutationsChecked, bestDistance, bestRoute, isCancelled,
                   progressLog, cancelledAt>>

\* the throw of the size check, and the TypeError the empty list raises in
\* calculatePathDistance (cities[undefined].x): the promise rejects and the
\* locals are lost
LiveThrow ==
    /\ livePc' = "rejected"
    /\ renders' = IF Len(cities) > OPTIMAL_CITY_LIMIT THEN renders
                  ELSE renders + InitialRender
    /\ UNCHANGED <<permutationsChecked, bestDistance, bestRoute, isCancelled,
                   progressLog, cancelledAt>>

\* runBruteForceLive from its first statement to its first await
LiveStartBody ==
    IF Len(cities) > OPTIMAL_CITY_LIMIT \/ Len(cities) = 0
    THEN LiveThrow
    ELSE IF isCancelled
         THEN LiveReturn
         ELSE \E c \in BOOLEAN : LoopBody(1, c)

\* the call, up to the first await
LiveStart ==
    /\ livePc = "init"
    /\ UNCHANGED <<cities, grain, ctlVars, solverVars, appVars>>
    /\ LiveStartBody

\* a plausible slip: the flag is not looked at after a suspension
LiveResumeUnchecked ==
    /\ livePc = "suspended"
    /\ UNCHANGED <<cities, grain, ctlVars, solverVars, appVars>>
    /\ IF permutationsChecked + 1 > Len(Yielded[Len(cities)])
       THEN LiveReturn
       ELSE \E c \in BOOLEAN : LoopBody(permutationsChecked + 1, c)

\* runBruteForceLive from the end of an await to the next await or the
\* return: the generator yields its next permutation or ends; the flag is
\* read first thing in the loop body
LiveResumeBody ==
    IF permutationsChecked + 1 > Len(Yielded[Len(cities)])
    THEN LiveReturn
    ELSE IF isCancelled
         THEN LiveReturn
         ELSE \E c \in BOOLEAN : LoopBody(permutationsChecked + 1, c)

\* the continuation after an await
LiveResume ==
    /\ livePc = "suspended"
    /\ UNCHANGED <<cities, grain, ctlVars, solverVars, appVars>>
    /\ LiveResumeBody

\* the Pause button while the run is suspended:
\* if (state.bruteForceController) state.bruteForceController.cancel()
LiveCancel ==
    /\ livePc = "suspended"
    /\ ~isCancelled
    /\ isCancelled' = TRUE
    /\ cancelledAt' = permutationsChecked
    /\ UNCHANGED <<cities, grain, livePc, permutationsChecked, bestDistance, bestRoute,
                   progressLog, renders, ctlVars, solverVars, appVars>>


(***************************************************************************)
(* StepController.  The object is the record This; each method is an       *)
(* operator from the record before the call to the record after it, so     *)
(* that a method calling another (next -> pause, replay -> pause, play)    *)
(* reads as it does in the source.  The field ret carries the return       *)
(* value, the field hooks the observer hooks invoked so far.               *)
(***************************************************************************)
\* this.playbackInterval = null
NoTimer == 0
NoStep == "null"
StepTypes == { "step", "final_result", "final" }
\* what addStep can be handed: a typed step, or an object without a type
StepInputs == StepTypes \cup { "" }
\* the values setPlaybackSpeed is called with
SpeedInputs == { 50, 100, 250 }

This ==
    [ steps |-> steps, currentStepIndex |-> currentStepIndex, isPlaying |-> isPlaying,
      playbackSpeed |-> playbackSpeed, playbackInterval |-> playbackInterval,
      timers |-> timers, hooks |-> <<>>, ret |-> "undefined" ]

\* getCurrentStep()
getCurrentStep(c) ==
    IF c.currentStepIndex < 0 \/ c.currentStepIndex >= Len(c.steps)
    THEN NoStep
    ELSE c.steps[c.currentStepIndex + 1]

isFinal(step) == step # NoStep /\ step \in { "final_result", "final" }

\* Math.round(((currentStepIndex + 1) / steps.length) * 100), or 0 without steps
progressPercent(c) ==
    IF Len(c.steps) > 0
    THEN (200 * (c.currentStepIndex + 1) + Len(c.steps)) \div (2 * Len(c.steps))
    ELSE 0

\* a plausible slip: canPlay does not look at the current step
getUIStateIgnoresFinal(c) ==
    [ canPlay |-> ~c.isPlaying /\ Len(c.steps) > 0,
      canPause |-> c.isPlaying,
      canNext |-> ~c.isPlaying /\ c.currentStepIndex < Len(c.steps) - 1,
      canPrevious |-> ~c.isPlaying /\ c.currentStepIndex > -1,
      canReplay |-> ~c.isPlaying /\ Len(c.steps) > 0,
      canReset |-> ~c.isPlaying /\ (c.currentStepIndex >= 0 \/ Len(c.steps) > 0),
      isPlaying |-> c.isPlaying,
      currentIndex |-> c.currentStepIndex,
      totalSteps |-> Len(c.steps),
      progressPercent |-> progressPercent(c),
      isFinalResult |-> isFinal(getCurrentStep(c)) ]

\* getUIState()
getUIState(c) ==
    LET isFinalResult == isFinal(getCurrentStep(c))
    IN  [ canPlay |-> ~c.isPlaying /\ Len(c.steps) > 0 /\ ~isFinalResult,
          canPause |-> c.isPlaying,
          canNext |-> ~c.isPlaying /\ c.currentStepIndex < Len(c.steps) - 1,
          canPrevious |-> ~c.isPlaying /\ c.currentStepIndex > -1,
          canReplay |-> ~c.isPlaying /\ Len(c.steps) > 0,
          canReset |-> ~c.isPlaying /\ (c.currentStepIndex >= 0 \/ Len(c.steps) > 0),
          isPlaying |-> c.isPlaying,
          currentIndex |-> c.currentStepIndex,
          totalSteps |-> Len(c.steps),
          progressPercent |-> progressPercent(c),
          isFinalResult |-> isFinalResult ]

\* a plausible slip: the explanation hook is forgotten
notifyStepChangedOnly(c) ==
    [c EXCEPT !.hooks = Append(@, "onStepChanged")]

\* _notifyStepChanged(): onStepChanged, then onExplanationUpdated
notifyStepChanged(c) ==
    [c EXCEPT !.hooks = @ \o << "onStepChanged", "onExplanationUpdated" >>]

\* _notifyPlaybackStateChanged(): onPlaybackStateChanged
notifyPlaybackStateChanged(c) ==
    [c EXCEPT !.hooks = Append(@, "onPlaybackStateChanged")]

\* setInterval hands out an id that no live timer has
NewTimerId(ts) == CHOOSE i \in 1..(Cardinality(ts) + 1) : \A t \in ts : t.id # i

\* a plausible slip: pause forgets clearInterval
pauseKeepsTimer(c) ==
    IF ~c.isPlaying THEN c
    ELSE notifyPlaybackStateChanged([c EXCEPT !.isPlaying = FALSE])

\* pause()
pause(c) ==
    IF ~c.isPlaying THEN c
    ELSE LET c1 == [c EXCEPT !.isPlaying = FALSE]
             c2 == IF c1.playbackInterval # NoTimer
                   THEN [c1 EXCEPT !.timers = { t \in @ : t.id # c1.playbackInterval },
                                   !.playbackInterval = NoTimer]
                   ELSE c1
         IN  notifyPlaybackStateChanged(c2)

\* a plausible slip: the bound test of next is off by one
nextOffByOne(c) ==
    IF c.currentStepIndex <= Len(c.steps) - 1
    THEN LET c1 == notifyStepChanged([c EXCEPT !.currentStepIndex = @ + 1])
             c2 == IF isFinal(getCurrentStep(c1)) /\ c1.isPlaying THEN pause(c1) ELSE c1
         IN  [c2 EXCEPT !.ret = "true"]
    ELSE [c EXCEPT !.ret = "false"]

\* a plausible slip: next does not stop the autoplay on the final step
nextNoAutoPause(c) ==
    IF c.currentStepIndex < Len(c.steps) - 1
    THEN [notifyStepChanged([c EXCEPT !.currentStepIndex = @ + 1]) EXCEPT !.ret = "true"]
    ELSE [c EXCEPT !.ret = "false"]

\* next()
next(c) ==
    IF c.currentStepIndex < Len(c.steps) - 1
    THEN LET c1 == notifyStepChanged([c EXCEPT !.currentStepIndex = @ + 1])
             c2 == IF isFinal(getCurrentStep(c1)) /\ c1.isPlaying THEN pause(c1) ELSE c1
         IN  [c2 EXCEPT !.ret = "true"]
    ELSE [c EXCEPT !.ret = "false"]

\* a plausible slip: previous has no lower bound
previousNoGuard(c) ==
    [notifyStepChanged([c EXCEPT !.currentStepIndex = @ - 1]) EXCEPT !.ret = "true"]

\* previous()
previous(c) ==
    IF c.currentStepIndex > -1
    THEN [notifyStepChanged([c EXCEPT !.currentStepIndex = @ - 1]) EXCEPT !.ret = "true"]
    ELSE [c EXCEPT !.ret = "false"]

\* a plausible slip: play starts from the beginning wherever the index stands
playAlwaysRewinds(c) ==
    IF c.isPlaying THEN c
    ELSE LET c2 == notifyPlaybackStateChanged([c EXCEPT !.currentStepIndex = -1,
                                                        !.isPlaying = TRUE])
             id == NewTimerId(c2.timers)
         IN  [c2 EXCEPT !.timers = @ \cup { [id |-> id, ms |-> c2.playbackSpeed] },
                        !.playbackInterval = id]

\* a plausible slip: play has no guard against being called while playing
playNoGuard(c) ==
    LET c1 == IF c.currentStepIndex >= Len(c.steps) - 1
              THEN [c EXCEPT !.currentStepIndex = -1] ELSE c
        c2 == notifyPlaybackStateChanged([c1 EXCEPT !.isPlaying = TRUE])
        id == NewTimerId(c2.timers)
    IN  [c2 EXCEPT !.timers = @ \cup { [id |-> id, ms |-> c2.playbackSpeed] },
                   !.playbackInterval = id]

\* play()
play(c) ==
    IF c.isPlaying THEN c
    ELSE LET c1 == IF c.currentStepIndex >= Len(c.steps) - 1
                   THEN [c EXCEPT !.currentStepIndex = -1] ELSE c
             c2 == notifyPlaybackStateChanged([c1 EXCEPT !.isPlaying = TRUE])
             id == NewTimerId(c2.timers)
         IN  [c2 EXCEPT !.timers = @ \cup { [id |-> id, ms |-> c2.playbackSpeed] },
                        !.playbackInterval = id]

\* a plausible slip: replay starts playing from where the index stands
replayNoRewind(c) == play(pause(c))

\* replay()
replay(c) == play(notifyStepChanged([pause(c) EXCEPT !.currentStepIndex = -1]))

\* reset()
reset(c) == notifyStepChanged([pause(c) EXCEPT !.currentStepIndex = -1])

\* a plausible slip: clear empties the trace without stopping the playback
clearKeepsPlaying(c) == [c EXCEPT !.steps = <<>>, !.currentStepIndex = -1]

\* clear()
clear(c) == [pause(c) EXCEPT !.steps = <<>>, !.currentStepIndex = -1]

\* initialize(algorithmName, totalCities, userRoute)
initialize(c) == [clear(c) EXCEPT !.currentStepIndex = -1]

\* addStep(step)
addStep(c, step) == IF step = "" THEN c ELSE [c EXCEPT !.steps = Append(@, step)]

\* addSteps(stepsArray): stepsArray.forEach(step => this.addStep(step)),
\* which pushes the typed steps in their order
addSteps(c, stepsArray) ==
    [c EXCEPT !.steps = @ \o SelectSeq(stepsArray, LAMBDA step : addStep(c, step) # c)]

\* setPlaybackSpeed(ms)
setPlaybackSpeed(c, ms) ==
    LET c1 == [c EXCEPT !.playbackSpeed = IF ms > MIN_PLAYBACK_SPEED
                                          THEN ms ELSE MIN_PLAYBACK_SPEED]
    IN  IF c1.isPlaying THEN play(pause(c1)) ELSE c1

\* the setInterval callback of play(): if (!this.next()) this.pause()
timerCallback(c) ==
    LET c1 == next(c)
    IN  IF c1.ret = "false" THEN pause(c1) ELSE c1


(***************************************************************************)
(* The controller's operations as actions: a call by the caller, or a      *)
(* tick of a live timer.  Each runs to completion.                         *)
(***************************************************************************)
\* constructor()
CtlInit ==
    /\ steps = <<>>
    /\ currentStepIndex = -1
    /\ isPlaying = FALSE
    /\ playbackSpeed = DEFAULT_PLAYBACK_SPEED
    /\ playbackInterval = NoTimer
    /\ timers = {}
    /\ lastOp = "new"
    /\ lastReturn = "undefined"
    /\ hooks = <<>>
    /\ before = [index |-> -1, playing |-> FALSE]
    /\ quiet = FALSE
    /\ visited = <<>>

Commit(c, op) ==
    /\ steps' = c.steps
    /\ currentStepIndex' = c.currentStepIndex
    /\ isPlaying' = c.isPlaying
    /\ playbackSpeed' = c.playbackSpeed
    /\ playbackInterval' = c.playbackInterval
    /\ timers' = c.timers
    /\ lastOp' = op
    /\ lastReturn' = c.ret
    /\ hooks' = c.hooks
    /\ before' = [index |-> currentStepIndex, playing |-> isPlaying]

\* a call made by the caller, who has not promised to stay away
Call(c, op) ==
    /\ ~quiet
    /\ Commit(c, op)
    /\ UNCHANGED <<quiet, visited, liveVars, solverVars, appVars>>

SeqsUpTo(S, n) == UNION { [1..k -> S] : k \in 0..n }

Initialize == Call(initialize(This), "initialize")

AddStep ==
    /\ Len(steps) < MaxSteps
    /\ \E step \in StepInputs : Call(addStep(This, step), "addStep")

AddSteps ==
    \E stepsArray \in SeqsUpTo(StepInputs, MaxSteps - Len(steps)) :
        Call(addSteps(This, stepsArray), "addSteps")

Next == Call(next(This), "next")

Previous == Call(previous(This), "previous")

\* play(); the caller may make it its last call (quiet), after which only
\* the timer acts
Play ==
    /\ ~quiet
    /\ Commit(play(This), "play")
    /\ \E q \in BOOLEAN :
          /\ quiet' = q
          /\ visited' = IF q THEN << play(This).currentStepIndex >> ELSE visited
    /\ UNCHANGED <<liveVars, solverVars, appVars>>

Pause == Call(pause(This), "pause")

Replay == Call(replay(This), "replay")

Reset == Call(reset(This), "reset")

SetPlaybackSpeed == \E ms \in SpeedInputs : Call(setPlaybackSpeed(This, ms), "setPlaybackSpeed")

\* a live timer fires
Tick ==
    /\ \E t \in timers : Commit(timerCallback(This), "tick")
    /\ visited' = IF quiet /\ timerCallback(This).currentStepIndex # currentStepIndex
                  THEN Append(visited, timerCallback(This).currentStepIndex)
                  ELSE visited
    /\ UNCHANGED <<quiet, liveVars, solverVars, appVars>>

(***************************************************************************)
(* Specifications.                                                         *)
(***************************************************************************)
\* generateCities: greedyDistance = 0, twoOptDistance = 0, optimalDistance = 0;
\* optimalOn is history: the list the stored optimal distance was computed on
NoResults == [greedy |-> 0, twoOpt |-> 0, optimal |-> 0, optimalOn |-> << >>]

\* the page as loaded: isAnimating: false, and no alert shown
AppIdle ==
    /\ isAnimating = FALSE
    /\ alerts = <<>>
    /\ stateCities = cities
    /\ bruteForceController = FALSE
    /\ results = NoResults
    /\ diagnostics = FALSE
    /\ runAllPc = "idle"

NoResult == [outcome |-> "none"]

\* no solver has been called
SolverIdle ==
    /\ solverPc = "idle"
    /\ solverCall = [fn |-> "none", initialRoute |-> <<>>]
    /\ solverResult = NoResult
    /\ twoOptLocals = [route |-> <<>>, bestDistance |-> 0, iterations |-> 0]
    /\ swapLog = <<>>

\* the controller alone; the live search has not been started
CtlIdleLive ==
    /\ cities = <<>>
    /\ grain = 1
    /\ livePc = "init"
    /\ permutationsChecked = 0
    /\ bestDistance = Infinity
    /\ bestRoute = <<>>
    /\ isCancelled = FALSE
    /\ progressLog = <<>>
    /\ cancelledAt = NoCancel
    /\ renders = 0

CtlNext ==
    \/ Initialize
    \/ AddStep
    \/ AddSteps
    \/ Next
    \/ Previous
    \/ Play
    \/ Pause
    \/ Replay
    \/ Reset
    \/ SetPlaybackSpeed
    \/ Tick

InitCtl == CtlInit /\ CtlIdleLive /\ SolverIdle /\ AppIdle

SpecCtl == InitCtl /\ [][CtlNext]_vars

\* setInterval keeps firing a live timer
SpecCtlFair == SpecCtl /\ WF_vars(Tick)

LiveNext ==
    \/ LiveStart
    \/ LiveResume
    \/ LiveCancel

InitLive == LiveInit /\ CtlInit /\ SolverIdle /\ AppIdle

SpecLive == InitLive /\ [][LiveNext]_vars

\* the timeout or animation frame an await waits for does arrive
SpecLiveFair == SpecLive /\ WF_vars(LiveResume)


(***************************************************************************)
(* Properties of the live search.                                          *)
(***************************************************************************)
\* the orderings of the n city ids, defined without the enumeration
AllOrderings ==
    [n \in 0..MaxCities |->
        { p \in [1..n -> 0..(n - 1)] : \A i, j \in 1..n : i # j => p[i] # p[j] }]

\* the length of the cycle through an open route, edge by edge
CycleLength(route) ==
    LET n == Len(route)
        RECURSIVE Sum(_)
        Sum(i) == IF i > n THEN 0
                  ELSE EdgeLength(cities[route[i] + 1], cities[route[(i % n) + 1] + 1])
                       + Sum(i + 1)
    IN  Sum(1)

\* a closed route over all the cities: an ordering with its first id appended
IsClosedTour(route) ==
    /\ Len(route) = Len(cities) + 1
    /\ route[Len(route)] = route[1]
    /\ SubSeq(route, 1, Len(cities)) \in AllOrderings[Len(cities)]

FlagSetWhilePending == cancelledAt # NoCancel

BestCoversEvaluated ==
    /\ \A i \in 1..Len(progressLog) : bestDistance <= progressLog[i].currentDistance
    /\ IsClosedTour(bestRoute)
    /\ CycleLength(SubSeq(bestRoute, 1, Len(cities))) = bestDistance

\* C1 as stated, for the lists of two or more cities the application runs the
\* search on: whenever the flag was set while the promise was pending, the
\* promise resolves with permutationsChecked < totalPermutations and a best
\* route no longer than any permutation evaluated.
C1_AsStated ==
    (livePc = "resolved" /\ FlagSetWhilePending /\ Len(cities) >= 2) =>
        (permutationsChecked < totalPerms /\ BestCoversEvaluated)

C1_Resolved ==
    /\ FlagSetWhilePending => livePc \in { "suspended", "resolved" }
    /\ (livePc = "resolved" /\ FlagSetWhilePending) =>
          /\ permutationsChecked = cancelledAt
          /\ permutationsChecked <= totalPerms
          /\ (permutationsChecked = totalPerms) <=> (cancelledAt = totalPerms)
          /\ BestCoversEvaluated

\* C1 (amended): once the flag has been set while the promise is pending, the
\* promise is never rejected and eventually resolves; it resolves with
\* permutationsChecked equal to the number of permutations evaluated when the
\* flag was set, which is below totalPermutations unless the flag was set
\* after the last permutation had been evaluated, and with a closed best route
\* whose length is bestDistance and is no greater than the distance of any
\* permutation evaluated.
C1_Cancellation == [] C1_Resolved /\ (FlagSetWhilePending ~> (livePc = "resolved"))

\* the flag was set in the middle of a run, which resolved early
C1_Witness ==
    /\ livePc = "resolved"
    /\ cancelledAt > 1
    /\ cancelledAt < totalPerms
    /\ bestDistance < progressLog[1].currentDistance

\* C2: once the flag is set, no further permutation is evaluated, the
\* incumbent is not touched and the progress callback is not invoked again:
\* the flag is read before each permutation, also right after a suspension.
C2_CancelTakesEffect ==
    [][isCancelled =>
          /\ permutationsChecked' = permutationsChecked
          /\ progressLog' = progressLog
          /\ bestDistance' = bestDistance
          /\ bestRoute' = bestRoute
          /\ livePc' \in { livePc, "resolved" }]_vars

\* the flag was set during a suspension and the run then stopped short
C2_Witness ==
    /\ livePc = "resolved"
    /\ isCancelled
    /\ permutationsChecked = cancelledAt
    /\ permutationsChecked > 0
    /\ permutationsChecked < totalPerms

\* C3: a run the flag never interrupts returns permutationsChecked =
\* totalPermutations = n! and a closed route of minimum length among all the
\* n! orderings (1 <= n).
C3_NaturalCompletion ==
    (livePc = "resolved" /\ ~isCancelled) =>
        /\ permutationsChecked = totalPerms
        /\ totalPerms = Cardinality(AllOrderings[Len(cities)])
        /\ IsClosedTour(bestRoute)
        /\ CycleLength(SubSeq(bestRoute, 1, Len(cities))) = bestDistance
        /\ \A p \in AllOrderings[Len(cities)] : bestDistance <= CycleLength(p)

\* a completed run over four cities in which the orderings differ in length
C3_Witness ==
    /\ livePc = "resolved"
    /\ ~isCancelled
    /\ Len(cities) >= 4
    /\ \E p \in AllOrderings[Len(cities)] : bestDistance < CycleLength(p)

\* C4: the progress callback is invoked once per evaluated permutation, in
\* enumeration order: the i-th call reports permutationsChecked = i and the
\* distance of the i-th yielded permutation, and the reported bestDistance
\* never increases.
C4_ProgressInOrder ==
    /\ Len(progressLog) = permutationsChecked
    /\ \A i \in 1..Len(progressLog) :
          /\ progressLog[i].permutationsChecked = i
          /\ progressLog[i].totalPermutations = totalPerms
          /\ progressLog[i].currentDistance = CycleLength(Yielded[Len(cities)][i])
          /\ i > 1 => progressLog[i].bestDistance <= progressLog[i - 1].bestDistance

\* several callbacks were made and the reported best improved on the way
C4_Witness ==
    /\ Len(progressLog) >= 3
    /\ progressLog[Len(progressLog)].bestDistance < progressLog[1].bestDistance
    /\ progressLog[2].currentDistance > progressLog[2].bestDistance


(***************************************************************************)
(* Properties of the playback controller.                                  *)
(***************************************************************************)
CtlFrame ==
    UNCHANGED <<steps, currentStepIndex, isPlaying, playbackSpeed, playbackInterval, timers>>

\* exactly one timer is live, it is the one playbackInterval names, and it
\* runs at the configured interval
OneTimer(ts, interval, speed) ==
    /\ interval # NoTimer
    /\ ts = { [id |-> interval, ms |-> speed] }

\* C5: the index stays within -1 .. steps.length - 1 whatever is called and
\* whenever a timer fires; next moves it up by one below the last index,
\* previous down by one above -1, and neither moves it otherwise.
C5_IndexInRange ==
    /\ [](currentStepIndex >= -1 /\ currentStepIndex <= Len(steps) - 1)
    /\ [][/\ lastOp' = "next" =>
               currentStepIndex' = IF currentStepIndex < Len(steps) - 1
                                   THEN currentStepIndex + 1 ELSE currentStepIndex
          /\ lastOp' = "previous" =>
               currentStepIndex' = IF currentStepIndex > -1
                                   THEN currentStepIndex - 1 ELSE currentStepIndex]_vars

\* three steps are loaded, the index was walked to 2, and previous() was then
\* called often enough to be refused at -1
C5_Witness ==
    /\ Len(steps) = 3
    /\ lastOp = "previous"
    /\ lastReturn = "false"
    /\ currentStepIndex = -1
    /\ before.index = -1

\* C6: next() at the last index returns false and changes nothing: not the
\* index, the steps, the playing flag, the speed or the timer, and it invokes
\* no observer hook.
C6_NextAtEndIsNoOp ==
    [][(lastOp' = "next" /\ currentStepIndex = Len(steps) - 1) =>
          (CtlFrame /\ lastReturn' = "false" /\ hooks' = <<>>)]_vars

\* next() was refused at the last index of a loaded trace that is playing
C6_Witness ==
    /\ lastOp = "next"
    /\ lastReturn = "false"
    /\ Len(steps) >= 2
    /\ currentStepIndex = Len(steps) - 1
    /\ before.index = currentStepIndex
    /\ isPlaying
    /\ timers # {}

\* C7: when next(), called by the caller or by a tick, moves the index onto
\* a final_result or final step while the controller is playing, the
\* controller is no longer playing when it returns and no timer is left.
C7_AutoPauseOnFinal ==
    [][(/\ lastOp' \in { "next", "tick" }
        /\ isPlaying
        /\ currentStepIndex' = currentStepIndex + 1
        /\ isFinal(steps[currentStepIndex' + 1])) =>
          (~isPlaying' /\ playbackInterval' = NoTimer /\ timers' = {})]_vars

\* a tick moved a playing controller onto a final step that is not the last
C7_Witness ==
    /\ lastOp = "tick"
    /\ before.playing
    /\ currentStepIndex = before.index + 1
    /\ isFinal(getCurrentStep(This))
    /\ currentStepIndex < Len(steps) - 1
    /\ ~isPlaying
    /\ timers = {}

\* a non-empty trace whose last element is its only terminal marker
GoodTrace ==
    /\ Len(steps) > 0
    /\ \A i \in 1..Len(steps) : isFinal(steps[i]) <=> (i = Len(steps))

AtRest ==
    /\ currentStepIndex = Len(steps) - 1
    /\ ~isPlaying
    /\ playbackInterval = NoTimer
    /\ timers = {}

\* C8 as stated: once the controller has come to rest after play(), the ticks
\* have visited 0, 1, ..., len - 1.
C8_AsStated ==
    (quiet /\ GoodTrace /\ AtRest) =>
        visited = [i \in 1..(Len(steps) + 1) |-> i - 2]

C8_Visits ==
    (quiet /\ GoodTrace) =>
        /\ visited[1] >= -1
        /\ visited[1] < Len(steps) - 1
        /\ \A i \in 2..Len(visited) : visited[i] = visited[i - 1] + 1
        /\ visited[Len(visited)] = currentStepIndex
        /\ (lastOp = "play" /\ ~before.playing) =>
              visited[1] = IF before.index >= Len(steps) - 1 THEN -1 ELSE before.index

\* C8 (amended): after play() on such a trace, left alone with its timer, the
\* controller comes to rest at the last index, not playing and with no timer;
\* the ticks visit k+1, k+2, ..., len-1 one by one, none skipped or repeated,
\* where k is the index play() left: -1 when play() was called at -1 or at the
\* last index, the index it was called at otherwise.
C8_PlaysToTheEnd == [] C8_Visits /\ ((quiet /\ GoodTrace) ~> AtRest)

\* play() was called in the middle of a trace, which then played to its end
C8_Witness ==
    /\ quiet
    /\ GoodTrace
    /\ AtRest
    /\ Len(steps) = 3
    /\ visited = << 0, 1, 2 >>

\* C9: play() while playing changes nothing and creates no timer; otherwise
\* it rewinds the index to -1 if it stands at (or past) the last index, and
\* it always ends playing with exactly one timer.
C9_Play ==
    [][lastOp' = "play" =>
          IF isPlaying
          THEN CtlFrame /\ hooks' = <<>>
          ELSE /\ currentStepIndex' = IF currentStepIndex >= Len(steps) - 1
                                      THEN -1 ELSE currentStepIndex
               /\ isPlaying'
               /\ OneTimer(timers', playbackInterval', playbackSpeed')
               /\ UNCHANGED <<steps, playbackSpeed>>]_vars

\* play() was called at the last index of a trace and rewound it
C9_Witness ==
    /\ lastOp = "play"
    /\ ~before.playing
    /\ Len(steps) >= 2
    /\ before.index = Len(steps) - 1
    /\ currentStepIndex = -1
    /\ isPlaying
    /\ Cardinality(timers) = 1

AfterReplay ==
    lastOp = "replay" =>
        /\ currentStepIndex = -1
        /\ isPlaying
        /\ OneTimer(timers, playbackInterval, playbackSpeed)

\* C10 as stated: after replay() in any state the index is -1, the controller
\* plays on one timer, and the first tick moves the index to 0.
C10_AsStated ==
    /\ [] AfterReplay
    /\ [][(lastOp = "replay" /\ lastOp' = "tick") => currentStepIndex' = 0]_vars

\* C10 (amended): after replay() in any state the index is -1, the controller
\* plays on one timer, and the first tick moves the index to 0 if at least one
\* step is loaded; with no step loaded that tick pauses the controller and
\* leaves the index at -1.
C10_Replay ==
    /\ [] AfterReplay
    /\ [][(lastOp = "replay" /\ lastOp' = "tick") =>
             IF Len(steps) > 0
             THEN currentStepIndex' = 0
             ELSE currentStepIndex' = -1 /\ ~isPlaying' /\ timers' = {}]_vars

\* replay() was called while playing in the middle of a trace
C10_Witness ==
    /\ lastOp = "replay"
    /\ before.playing
    /\ before.index >= 1
    /\ Len(steps) >= 2
    /\ currentStepIndex = -1
    /\ isPlaying

\* C11 as stated: setPlaybackSpeed(ms) called while the controller is playing
\* leaves the index where it was and the controller playing.
C11_AsStated ==
    [][(lastOp' = "setPlaybackSpeed" /\ isPlaying) =>
          (currentStepIndex' = currentStepIndex /\ isPlaying')]_vars

\* what the code does instead: the pause(); play() of setPlaybackSpeed keeps
\* the index below the last one and rewinds it to -1 from the last one; it
\* ends playing on one timer at the clamped interval
C11_RestartRewindsAtEnd ==
    [][(lastOp' = "setPlaybackSpeed" /\ isPlaying) =>
          /\ currentStepIndex' = IF currentStepIndex >= Len(steps) - 1
                                 THEN -1 ELSE currentStepIndex
          /\ isPlaying'
          /\ OneTimer(timers', playbackInterval', playbackSpeed')
          /\ playbackSpeed' >= MIN_PLAYBACK_SPEED]_vars

StepHooks == << "onStepChanged", "onExplanationUpdated" >>

PlaybackHook == << "onPlaybackStateChanged" >>

StateChanged == currentStepIndex' # currentStepIndex \/ isPlaying' # isPlaying

\* C12 as stated: each of next, previous, play, pause, replay, reset and
\* initialize that changes the index or the playing flag invokes the
\* step-changed hook and the explanation hook before it returns.
C12_AsStated ==
    [][(/\ lastOp' \in { "next", "previous", "play", "pause", "replay", "reset",
                         "initialize" }
        /\ StateChanged) =>
          \E i \in 1..(Len(hooks') - 1) :
              hooks'[i] = "onStepChanged" /\ hooks'[i + 1] = "onExplanationUpdated"]_vars

\* C12 (amended): an operation that changes the playing flag invokes the
\* playback-state hook; next and previous that move the index, and replay and
\* reset always, invoke the step-changed hook and then the explanation hook;
\* play (its rewind to -1 included) and pause invoke the playback-state hook
\* only, and initialize invokes no hook at all unless it stops a playback.
C12_Hooks ==
    [][/\ isPlaying' # isPlaying =>
            \E i \in 1..Len(hooks') : hooks'[i] = "onPlaybackStateChanged"
       /\ (lastOp' \in { "next", "tick" } /\ currentStepIndex' # currentStepIndex) =>
            SubSeq(hooks', 1, 2) = StepHooks
       /\ (lastOp' = "previous" /\ currentStepIndex' # currentStepIndex) =>
            hooks' = StepHooks
       /\ lastOp' = "reset" =>
            hooks' = (IF isPlaying THEN PlaybackHook ELSE <<>>) \o StepHooks
       /\ lastOp' = "replay" =>
            hooks' = (IF isPlaying THEN PlaybackHook ELSE <<>>) \o StepHooks \o PlaybackHook
       /\ lastOp' \in { "play", "pause" } =>
            hooks' = IF isPlaying' # isPlaying THEN PlaybackHook ELSE <<>>
       /\ lastOp' = "initialize" =>
            hooks' = IF isPlaying THEN PlaybackHook ELSE <<>>]_vars

\* play() was called at the last index of a trace: it rewound the index and
\* invoked the playback-state hook alone
C12_Witness ==
    /\ lastOp = "play"
    /\ ~before.playing
    /\ before.index = Len(steps) - 1
    /\ before.index >= 1
    /\ currentStepIndex = -1
    /\ hooks = PlaybackHook

\* C13 as stated: a next() called by the caller while playing that advances
\* the index leaves the controller not playing and with no timer left to
\* advance the index further.
C13_AsStated ==
    [][(lastOp' = "next" /\ isPlaying /\ currentStepIndex' = currentStepIndex + 1) =>
          (~isPlaying' /\ playbackInterval' = NoTimer /\ timers' = {})]_vars

\* what the code does instead: such a next() stops the playback only on a
\* terminal step and otherwise leaves the flag and the timer as they were
C13_NextKeepsPlaying ==
    [][(lastOp' = "next" /\ isPlaying /\ currentStepIndex' = currentStepIndex + 1) =>
          IF isFinal(steps[currentStepIndex' + 1])
          THEN ~isPlaying' /\ playbackInterval' = NoTimer /\ timers' = {}
          ELSE isPlaying' /\ UNCHANGED <<playbackInterval, timers>> /\ timers' # {}]_vars

(***************************************************************************)
(* StepController with observers that call back.  The hooks run inside     *)
(* the operation that notifies them, so a hook that calls play() or        *)
(* pause() does so in the middle of it.  What the two installed hooks do   *)
(* is the record h: h.step for onStepChanged, h.playback for               *)
(* onPlaybackStateChanged, each "none", "pause" (the hook calls pause())   *)
(* or "play" (it calls play()).  A call made by a hook is logged in hooks  *)
(* as "pause()" or "play()".                                               *)
(***************************************************************************)
MaxTimers == 2

HookActions == { "none", "pause", "play" }

HookPolicies == [ step : HookActions, playback : HookActions ]

RECURSIVE playHooked(_, _)
RECURSIVE pauseHooked(_, _)
RECURSIVE notifyPlaybackStateChangedHooked(_, _)

\* what an installed hook does when it is invoked
runHook(c, action, h) ==
    IF action = "pause" THEN pauseHooked([c EXCEPT !.hooks = Append(@, "pause()")], h)
    ELSE IF action = "play" THEN playHooked([c EXCEPT !.hooks = Append(@, "play()")], h)
    ELSE c

\* _notifyPlaybackStateChanged()
notifyPlaybackStateChangedHooked(c, h) ==
    runHook([c EXCEPT !.hooks = Append(@, "onPlaybackStateChanged")], h.playback, h)

\* _notifyStepChanged()
notifyStepChangedHooked(c, h) ==
    LET c1 == runHook([c EXCEPT !.hooks = Append(@, "onStepChanged")], h.step, h)
    IN  [c1 EXCEPT !.hooks = Append(@, "onExplanationUpdated")]

\* pause()
pauseHooked(c, h) ==
    IF ~c.isPlaying THEN c
    ELSE LET c1 == [c EXCEPT !.isPlaying = FALSE]
             c2 == IF c1.playbackInterval # NoTimer
                   THEN [c1 EXCEPT !.timers = { t \in @ : t.id # c1.playbackInterval },
                                   !.playbackInterval = NoTimer]
                   ELSE c1
         IN  notifyPlaybackStateChangedHooked(c2, h)

\* play(): the flag is set and the observers are notified before the timer
\* is created
playHooked(c, h) ==
    IF c.isPlaying THEN c
    ELSE LET c1 == IF c.currentStepIndex >= Len(c.steps) - 1
                   THEN [c EXCEPT !.currentStepIndex = -1] ELSE c
             c2 == notifyPlaybackStateChangedHooked([c1 EXCEPT !.isPlaying = TRUE], h)
             id == NewTimerId(c2.timers)
         IN  [c2 EXCEPT !.timers = @ \cup { [id |-> id, ms |-> c2.playbackSpeed] },
                        !.playbackInterval = id]

\* next()
nextHooked(c, h) ==
    IF c.currentStepIndex < Len(c.steps) - 1
    THEN LET c1 == notifyStepChangedHooked([c EXCEPT !.currentStepIndex = @ + 1], h)
             c2 == IF isFinal(getCurrentStep(c1)) /\ c1.isPlaying
                   THEN pauseHooked(c1, h) ELSE c1
         IN  [c2 EXCEPT !.ret = "true"]
    ELSE [c EXCEPT !.ret = "false"]

\* the setInterval callback of play()
timerCallbackHooked(c, h) ==
    LET c1 == nextHooked(c, h)
    IN  IF c1.ret = "false" THEN pauseHooked(c1, h) ELSE c1

\* play() called by the caller, with observers installed
HookedPlay ==
    /\ Cardinality(timers) < MaxTimers
    /\ \E h \in HookPolicies : Call(playHooked(This, h), "play")

\* pause() called by the caller, with observers installed
HookedPause ==
    /\ Cardinality(timers) < MaxTimers
    /\ \E h \in HookPolicies : Call(pauseHooked(This, h), "pause")

\* a live timer fires, with observers installed
HookedTick ==
    /\ Cardinality(timers) < MaxTimers
    /\ \E t \in timers, h \in HookPolicies : Call(timerCallbackHooked(This, h), "tick")

HookNext ==
    \/ AddStep
    \/ HookedPlay
    \/ HookedPause
    \/ HookedTick

SpecHooks == InitCtl /\ [][HookNext]_vars

HookCalled(call) == \E i \in 1..Len(hooks) : hooks[i] = call

\* C14 as stated: when a hook fired during play(), pause() or a timer tick
\* has called pause() (and none has called play()), the controller is not
\* playing and no timer is scheduled once the operation has returned; when a
\* hook has called play() (and none pause()), exactly one timer is scheduled.
C14_AsStated ==
    lastOp \in { "play", "pause", "tick" } =>
        /\ (HookCalled("pause()") /\ ~HookCalled("play()")) =>
              (~isPlaying /\ timers = {})
        /\ (HookCalled("play()") /\ ~HookCalled("pause()")) =>
              Cardinality(timers) = 1

\* what the code does instead when the playback-state hook fired by play()
\* calls pause(): play() creates its timer after the hook has returned, so
\* the controller ends not playing with that timer scheduled
C14_LeakedTimer ==
    (lastOp = "play" /\ ~before.playing /\ HookCalled("pause()") /\ ~HookCalled("play()")) =>
        (~isPlaying /\ playbackInterval # NoTimer
            /\ [id |-> playbackInterval, ms |-> playbackSpeed] \in timers)

\* the step the index stands on is a terminal marker
OnTerminalStep ==
    /\ currentStepIndex >= 0
    /\ currentStepIndex < Len(steps)
    /\ steps[currentStepIndex + 1] \in { "final_result", "final" }

\* C15: in every reachable state the snapshot getUIState() returns has
\* canPlay true exactly when the controller is not playing, at least one step
\* is loaded and the current step is not final_result or final; canPause
\* equal to isPlaying; and canNext and canPrevious false while playing.
C15_UIState ==
    /\ getUIState(This).canPlay <=> (~isPlaying /\ Len(steps) > 0 /\ ~OnTerminalStep)
    /\ getUIState(This).canPause <=> isPlaying
    /\ isPlaying => (~getUIState(This).canNext /\ ~getUIState(This).canPrevious)

\* a stopped controller stands on a terminal step in the middle of a loaded
\* trace: canPlay is false though canNext and canPrevious are true
C15_Witness ==
    /\ ~isPlaying
    /\ Len(steps) = 3
    /\ currentStepIndex = 1
    /\ OnTerminalStep
    /\ ~getUIState(This).canPlay
    /\ getUIState(This).canNext
    /\ getUIState(This).canPrevious
    /\ getUIState(This).progressPercent = 67

(***************************************************************************)
(* The solvers of algorithms/tsp-solver.js as operators.  A route is a     *)
(* sequence of 0-based city ids; loop indices keep the source's 0-based    *)
(* values.                                                                 *)
(***************************************************************************)
\* const EPSILON = 1e-9, kept as its inverse
EPSILON_INVERSE == 1000000000

\* if (cities.length > 10) throw
BRUTE_FORCE_THROW_ABOVE == 10

\* a plausible slip: a swap that is no longer is accepted too
LessOrEqual(a, b) == a <= b

\* EPSILON in the units a and b of LessByEpsilon are counted in, rounded down:
\* a length of one unit is SCALE * grain of them
EpsilonScaled ==
    (grain \div EPSILON_INVERSE) * SCALE
    + ((grain % EPSILON_INVERSE) * SCALE) \div EPSILON_INVERSE

\* a plausible slip: the margin is taken twice
LessByTwoEpsilon(a, b) == b - a > 2 * EpsilonScaled

\* a < b - EPSILON for fixed-point a and b: b - a exceeds EPSILON scaled, and
\* an integer exceeds a real exactly when it exceeds the real's integer part
LessByEpsilon(a, b) == b - a > EpsilonScaled

\* calculateDistance(cityA, cityB)
calculateDistance(cityA, cityB) ==
    LET dx == cityB[1] - cityA[1]
        dy == cityB[2] - cityA[2]
    IN  Sqrt(dx * dx + dy * dy)

RECURSIVE SumDistances(_, _, _)
SumDistances(route, cs, i) ==
    IF i >= Len(route) - 1 THEN 0
    ELSE calculateDistance(cs[route[i + 1] + 1], cs[route[i + 2] + 1])
         + SumDistances(route, cs, i + 1)

\* a plausible slip: the closing edge is left out
calculateTotalDistanceOpen(route, cs) ==
    IF Len(route) < 2 THEN 0 ELSE SumDistances(route, cs, 0)

\* calculateTotalDistance(route, cities)
calculateTotalDistance(route, cs) ==
    IF Len(route) < 2 THEN 0
    ELSE LET isClosed == route[1] = route[Len(route)]
             totalDistance == SumDistances(route, cs, 0)
         IN  IF ~isClosed
             THEN totalDistance
                  + calculateDistance(cs[route[Len(route)] + 1], cs[route[1] + 1])
             ELSE totalDistance

\* Array.prototype.reverse
Reverse(s) == [j \in 1..Len(s) |-> s[Len(s) + 1 - j]]

\* a plausible slip: the reversed segment starts one position early
perform2OptSwapFromBefore(route, i, k) ==
    SubSeq(route, 1, i - 1) \o Reverse(SubSeq(route, i, k + 1))
    \o SubSeq(route, k + 2, Len(route))

\* a plausible slip: the segment is copied without being reversed
perform2OptSwapNoReverse(route, i, k) ==
    SubSeq(route, 1, i) \o SubSeq(route, i + 1, k + 1) \o SubSeq(route, k + 2, Len(route))

\* perform2OptSwap(route, i, k)
perform2OptSwap(route, i, k) ==
    LET start == SubSeq(route, 1, i)
        middle == Reverse(SubSeq(route, i + 1, k + 1))
        end == SubSeq(route, k + 2, Len(route))
    IN  start \o middle \o end

NoSwap == << >>

\* the pairs (i, k) the two for loops of twoOpt go through on a route of n
\* cities: 1 <= i < k <= n - 1
SwapPairs(n) == { q \in (1..(n - 1)) \X (1..(n - 1)) : q[1] < q[2] }

\* a plausible slip: best improvement, the pair whose swap is the shortest
bestImprovingSwap(route, best, cs, i, k) ==
    LET improving ==
            { q \in SwapPairs(Len(route)) :
                LessByEpsilon(calculateTotalDistance(perform2OptSwap(route, q[1], q[2]), cs),
                              best) }
    IN  IF improving = {} THEN NoSwap
        ELSE CHOOSE q \in improving :
                \A r \in improving :
                    calculateTotalDistance(perform2OptSwap(route, q[1], q[2]), cs)
                      <= calculateTotalDistance(perform2OptSwap(route, r[1], r[2]), cs)

\* the two for loops of twoOpt from (i, k) on: the first pair whose swap is
\* shorter than bestDistance by more than EPSILON, NoSwap if the loops run out
RECURSIVE firstImprovingSwap(_, _, _, _, _)
firstImprovingSwap(route, best, cs, i, k) ==
    LET n == Len(route)
    IN  IF i >= n - 1 THEN NoSwap
        ELSE IF k >= n THEN firstImprovingSwap(route, best, cs, i + 1, i + 2)
        ELSE IF LessByEpsilon(calculateTotalDistance(perform2OptSwap(route, i, k), cs), best)
             THEN << i, k >>
             ELSE firstImprovingSwap(route, best, cs, i, k + 1)

\* a plausible slip: the scan of greedyTSP replaces the candidate on a tie
RECURSIVE nearestUnvisitedLastWins(_, _, _, _, _, _)
nearestUnvisitedLastWins(cs, currentCity, visitedIds, j, nearestCity, nearestDistance) ==
    IF j >= Len(cs) THEN nearestCity
    ELSE LET distance == calculateDistance(cs[currentCity + 1], cs[j + 1])
         IN  IF j \notin visitedIds /\ distance <= nearestDistance
             THEN nearestUnvisitedLastWins(cs, currentCity, visitedIds, j + 1, j, distance)
             ELSE nearestUnvisitedLastWins(cs, currentCity, visitedIds, j + 1,
                                           nearestCity, nearestDistance)

\* the inner loop of greedyTSP from j on
RECURSIVE nearestUnvisited(_, _, _, _, _, _)
nearestUnvisited(cs, currentCity, visitedIds, j, nearestCity, nearestDistance) ==
    IF j >= Len(cs) THEN nearestCity
    ELSE LET distance == calculateDistance(cs[currentCity + 1], cs[j + 1])
         IN  IF j \notin visitedIds /\ distance < nearestDistance
             THEN nearestUnvisited(cs, currentCity, visitedIds, j + 1, j, distance)
             ELSE nearestUnvisited(cs, currentCity, visitedIds, j + 1,
                                   nearestCity, nearestDistance)

\* the outer loop of greedyTSP: path grows by the nearest unvisited city
RECURSIVE greedyPath(_, _)
greedyPath(cs, path) ==
    IF Len(path) >= Len(cs) THEN path
    ELSE LET visitedIds == { path[i] : i \in 1..Len(path) }
             nearestCity == nearestUnvisited(cs, path[Len(path)], visitedIds, 0,
                                             0 - 1, Infinity)
         IN  greedyPath(cs, Append(path, nearestCity))

\* a plausible slip: the size guard of greedyTSP lets a single city through
greedyTSPGuardOffByOne(cs) ==
    IF Len(cs) < 1 THEN [outcome |-> "returned", path |-> <<>>, distance |-> 0]
    ELSE LET path == Append(greedyPath(cs, << 0 >>), 0)
         IN  [outcome |-> "returned", path |-> path, distance |-> calculateTotalDistance(path, cs)]

\* greedyTSP(cities)
greedyTSP(cs) ==
    IF Len(cs) < 2 THEN [outcome |-> "returned", path |-> <<>>, distance |-> 0]
    ELSE LET path == Append(greedyPath(cs, << 0 >>), 0)
         IN  [outcome |-> "returned", path |-> path, distance |-> calculateTotalDistance(path, cs)]

\* a plausible slip: the incumbent is replaced on a tie as well
RECURSIVE bruteForceLoopLastWins(_, _, _, _, _)
bruteForceLoopLastWins(cs, perms, k, minDistance, optimalPath) ==
    IF k > Len(perms)
    THEN [outcome |-> "returned", path |-> optimalPath, distance |-> minDistance]
    ELSE LET perm == perms[k]
             path == Append(perm, perm[1])
             distance == calculateTotalDistance(path, cs)
         IN  IF distance <= minDistance
             THEN bruteForceLoopLastWins(cs, perms, k + 1, distance, path)
             ELSE bruteForceLoopLastWins(cs, perms, k + 1, minDistance, optimalPath)

\* the loop of bruteForceTSP over the yielded permutations, from the k-th on
RECURSIVE bruteForceLoop(_, _, _, _, _)
bruteForceLoop(cs, perms, k, minDistance, optimalPath) ==
    IF k > Len(perms)
    THEN [outcome |-> "returned", path |-> optimalPath, distance |-> minDistance]
    ELSE LET perm == perms[k]
             path == Append(perm, perm[1])
             distance == calculateTotalDistance(path, cs)
         IN  IF LessByEpsilon(distance, minDistance)
             THEN bruteForceLoop(cs, perms, k + 1, distance, path)
             ELSE bruteForceLoop(cs, perms, k + 1, minDistance, optimalPath)

\* throw new Error('Brute Force TSP only practical for n <= 10')
Threw == [outcome |-> "threw", path |-> <<>>, distance |-> 0]

\* bruteForceTSP(cities)
bruteForceTSP(cs) ==
    IF Len(cs) < 2 THEN [outcome |-> "returned", path |-> <<>>, distance |-> 0]
    ELSE IF Len(cs) > BRUTE_FORCE_THROW_ABOVE THEN Threw
    ELSE bruteForceLoop(cs, Yielded[Len(cs)], 1, Infinity, <<>>)

\* a call of bruteForceTSP that passes both guards with more than MaxCities
\* cities goes through its n! permutations and returns the route it kept;
\* the model does not carry the enumeration out and records the return only
ReturnedUnevaluated == [outcome |-> "returned a route", path |-> <<>>, distance |-> 0]

\* const baseRoute = [...initialRoute]; if closed, baseRoute.pop()
baseRoute(initialRoute) ==
    IF Len(initialRoute) > 1 /\ initialRoute[1] = initialRoute[Len(initialRoute)]
    THEN SubSeq(initialRoute, 1, Len(initialRoute) - 1)
    ELSE initialRoute

\* while (improved) of twoOpt, from the top of a pass on, and the return
RECURSIVE twoOptWhile(_, _, _, _)
twoOptWhile(cs, route, best, iterations) ==
    LET swap == firstImprovingSwap(route, best, cs, 1, 2)
    IN  IF swap = NoSwap
        THEN [outcome |-> "returned", route |-> Append(route, route[1]),
              distance |-> best, iterations |-> iterations]
        ELSE LET newRoute == perform2OptSwap(route, swap[1], swap[2])
             IN  twoOptWhile(cs, newRoute, calculateTotalDistance(newRoute, cs),
                             iterations + 1)

\* twoOpt(cities, initialRoute)
twoOpt(cs, initialRoute) ==
    IF Len(cs) < 2 \/ Len(initialRoute) < 2
    THEN [outcome |-> "returned", route |-> <<>>, distance |-> 0, iterations |-> 0]
    ELSE IF Len(baseRoute(initialRoute)) < 3
    THEN LET closedRoute == Append(baseRoute(initialRoute), baseRoute(initialRoute)[1])
         IN  [outcome |-> "returned", route |-> closedRoute,
              distance |-> calculateTotalDistance(closedRoute, cs), iterations |-> 0]
    ELSE twoOptWhile(cs, baseRoute(initialRoute),
                     calculateTotalDistance(baseRoute(initialRoute), cs), 0)

(***************************************************************************)
(* The solvers as calls.  greedyTSP and bruteForceTSP run in one step;     *)
(* twoOpt takes one step for its entry and one for each pass of its while  *)
(* loop, so that its accepted swaps are steps of the behaviour.            *)
(***************************************************************************)
\* one more point than the live search is given: from <<2, 0>> the points
\* <<0, 0>> and <<4, 0>>, and <<0, 3>> and <<4, 3>>, are equally far
SolverPoints == Points \cup { <<2, 0>> }

\* the longest list a solver is called with, above both size limits
MaxListLength == 11

\* a list of n distinct cities on the grid 0..4 x 0..3
GridCities(n) == [i \in 1..n |-> << (i - 1) % 5, (i - 1) \div 5 >>]

\* five cities that are not on a line: with five, twoOpt can accept a swap
\* at a pair its scan had already passed
FiveCities == << <<0, 0>>, <<0, 3>>, <<1, 1>>, <<2, 0>>, <<4, 3>> >>

\* the lists a solver is called with: up to MaxCities distinct points, one
\* longer list of each length up to MaxListLength, FiveCities and the square
SolverCityLists ==
    UNION { { cs \in [1..n -> SolverPoints] : \A i, j \in 1..n : i # j => cs[i] # cs[j] } :
            n \in 0..MaxCities }
    \cup { GridCities(n) : n \in (MaxCities + 1)..MaxListLength }
    \cup { FiveCities, SquareCities }

\* the routes twoOpt is started from: none, or an ordering of the city ids,
\* open or closed; for the lists of MaxCities + 1 cities the orderings from
\* city 0 on, for longer lists none
InitialRoutes(n) ==
    IF n = 0 \/ n > MaxCities + 1 THEN { <<>> }
    ELSE LET open == IF n <= MaxCities THEN AllOrderings[n]
                     ELSE { p \in [1..n -> 0..(n - 1)] :
                              p[1] = 0 /\ \A i, j \in 1..n : i # j => p[i] # p[j] }
         IN  { <<>> } \cup open \cup { Append(p, p[1]) : p \in open }

\* the grains a solver meets: whole coordinates, and for the lists over
\* Points also coordinates so fine that routes differ by less than EPSILON
SolverGrains(cs) ==
    IF \A i \in 1..Len(cs) : cs[i] \in Points THEN { 1, FineGrain } ELSE { 1 }

SolverInit ==
    /\ cities \in SolverCityLists
    /\ grain \in SolverGrains(cities)
    /\ livePc = "init"
    /\ permutationsChecked = 0
    /\ bestDistance = Infinity
    /\ bestRoute = <<>>
    /\ isCancelled = FALSE
    /\ progressLog = <<>>
    /\ cancelledAt = NoCancel
    /\ renders = 0
    /\ CtlInit
    /\ SolverIdle
    /\ AppIdle

SolverFrame == UNCHANGED <<liveVars, ctlVars, appVars>>

Return(fn, initialRoute, result) ==
    /\ solverCall' = [fn |-> fn, initialRoute |-> initialRoute]
    /\ solverResult' = result
    /\ solverPc' = "done"

CallGreedyTSP ==
    /\ solverPc = "idle"
    /\ Return("greedyTSP", <<>>, greedyTSP(cities))
    /\ UNCHANGED <<twoOptLocals, swapLog>>
    /\ SolverFrame

CallBruteForceTSP ==
    /\ solverPc = "idle"
    /\ Return("bruteForceTSP", <<>>,
              IF Len(cities) > MaxCities /\ Len(cities) <= BRUTE_FORCE_THROW_ABOVE
              THEN ReturnedUnevaluated
              ELSE bruteForceTSP(cities))
    /\ UNCHANGED <<twoOptLocals, swapLog>>
    /\ SolverFrame

\* twoOpt(cities, initialRoute) up to the while loop: the early returns, or
\* the locals as the loop finds them
CallTwoOpt ==
    /\ solverPc = "idle"
    /\ \E initialRoute \in InitialRoutes(Len(cities)) :
          IF Len(cities) < 2 \/ Len(initialRoute) < 2
          THEN /\ Return("twoOpt", initialRoute,
                         [outcome |-> "returned", route |-> <<>>, distance |-> 0,
                          iterations |-> 0])
               /\ UNCHANGED twoOptLocals
          ELSE IF Len(baseRoute(initialRoute)) < 3
          THEN LET closedRoute == Append(baseRoute(initialRoute), baseRoute(initialRoute)[1])
               IN  /\ Return("twoOpt", initialRoute,
                             [outcome |-> "returned", route |-> closedRoute,
                              distance |-> calculateTotalDistance(closedRoute, cities),
                              iterations |-> 0])
                   /\ UNCHANGED twoOptLocals
          ELSE /\ solverCall' = [fn |-> "twoOpt", initialRoute |-> initialRoute]
               /\ twoOptLocals' =
                     [route |-> baseRoute(initialRoute),
                      bestDistance |-> calculateTotalDistance(baseRoute(initialRoute), cities),
                      iterations |-> 0]
               /\ solverPc' = "twoOpt"
               /\ UNCHANGED solverResult
    /\ UNCHANGED swapLog
    /\ SolverFrame

\* one pass of while (improved): the two for loops up to the first accepted
\* swap, or through to their end and on to the return
TwoOptPass ==
    /\ solverPc = "twoOpt"
    /\ LET route == twoOptLocals.route
           swap == firstImprovingSwap(route, twoOptLocals.bestDistance, cities, 1, 2)
       IN  IF swap # NoSwap
           THEN LET newRoute == perform2OptSwap(route, swap[1], swap[2])
                    newDistance == calculateTotalDistance(newRoute, cities)
                IN  /\ twoOptLocals' = [route |-> newRoute,
                                        bestDistance |-> newDistance,
                                        iterations |-> twoOptLocals.iterations + 1]
                    /\ swapLog' = Append(swapLog, [pre |-> twoOptLocals.bestDistance,
                                                   post |-> newDistance,
                                                   i |-> swap[1], k |-> swap[2],
                                                   route |-> route])
                    /\ UNCHANGED <<solverPc, solverCall, solverResult>>
           ELSE /\ solverResult' = [outcome |-> "returned",
                                    route |-> Append(route, route[1]),
                                    distance |-> twoOptLocals.bestDistance,
                                    iterations |-> twoOptLocals.iterations]
                /\ solverPc' = "done"
                /\ UNCHANGED <<solverCall, twoOptLocals, swapLog>>
    /\ SolverFrame

SolverNext ==
    \/ CallGreedyTSP
    \/ CallBruteForceTSP
    \/ CallTwoOpt
    \/ TwoOptPass

SpecSolver == SolverInit /\ [][SolverNext]_vars

SolverTypeOK ==
    /\ solverPc \in { "idle", "twoOpt", "done" }
    /\ (solverPc = "done") <=> (solverResult.outcome # "none")

(***************************************************************************)
(* Properties of the solvers.                                              *)
(***************************************************************************)
Called(fn) == solverCall.fn = fn /\ solverPc = "done"

\* C16 as stated: bruteForceTSP called with more than 9 cities throws and
\* returns no route.
C16_AsStated ==
    (Called("bruteForceTSP") /\ Len(cities) > 9) => solverResult.outcome = "threw"

\* what the code does instead: it throws for more than 10 cities, and for
\* exactly 10 it goes through the permutations and returns a route
C16_ThrowsAboveTen ==
    Called("bruteForceTSP") =>
        (solverResult.outcome = "threw" <=> Len(cities) > 10)

\* C18: called with fewer than 2 cities, greedyTSP, twoOpt and bruteForceTSP
\* each return, without throwing, an empty route with distance 0, and twoOpt
\* 0 iterations.
C18_FewerThanTwoCities ==
    (solverPc = "done" /\ Len(cities) < 2) =>
        /\ solverResult.outcome = "returned"
        /\ solverResult.distance = 0
        /\ solverCall.fn \in { "greedyTSP", "bruteForceTSP" } => solverResult.path = <<>>
        /\ solverCall.fn = "twoOpt" =>
              (solverResult.route = <<>> /\ solverResult.iterations = 0)
        /\ swapLog = <<>>

\* twoOpt was called with a single city and a route that is not empty
C18_Witness ==
    /\ Called("twoOpt")
    /\ Len(cities) = 1
    /\ solverCall.initialRoute = << 0, 0 >>
    /\ solverResult.route = <<>>
    /\ solverResult.iterations = 0

\* the ids the first i elements of a path have taken
Taken(path, i) == { path[j] : j \in 1..i }

\* the i-th element of path is an unvisited city nearest to the one before
\* it, and the smallest id among the unvisited cities that near
NearestSmallestId(path, i) ==
    LET from == cities[path[i - 1] + 1]
        chosen == EdgeLength(from, cities[path[i] + 1])
    IN  /\ path[i] \notin Taken(path, i - 1)
        /\ \A c \in (0..(Len(cities) - 1)) \ Taken(path, i - 1) :
              /\ chosen <= EdgeLength(from, cities[c + 1])
              /\ chosen = EdgeLength(from, cities[c + 1]) => path[i] <= c

\* C19: for n >= 2 cities greedyTSP returns a closed route of length n + 1
\* that starts and ends at city 0 and holds every city id exactly once in its
\* first n positions; each next city is an unvisited city nearest to the
\* current one, the one with the smallest id among equally near ones.
C19_Greedy ==
    (Called("greedyTSP") /\ Len(cities) >= 2) =>
        LET n == Len(cities)
            path == solverResult.path
        IN  /\ solverResult.outcome = "returned"
            /\ Len(path) = n + 1
            /\ path[1] = 0
            /\ path[n + 1] = 0
            /\ Taken(path, n) = 0..(n - 1)
            /\ \A i \in 2..n : NearestSmallestId(path, i)

\* greedyTSP had two equally near unvisited cities to choose from and took
\* the one with the smaller id, which the scan met first
C19_Witness ==
    /\ Called("greedyTSP")
    /\ Len(cities) = 4
    /\ \E i \in 2..3 :
          \E c \in (0..3) \ Taken(solverResult.path, i) :
              /\ EdgeLength(cities[solverResult.path[i - 1] + 1], cities[c + 1])
                   = EdgeLength(cities[solverResult.path[i - 1] + 1],
                                cities[solverResult.path[i] + 1])
              /\ solverResult.path[i] < c

\* the accepted swaps of twoOpt so far: each is shorter than the route before
\* it by more than EPSILON, it starts from the distance the one before it
\* reached, and the first starts from the distance of the initial route
SwapsDecrease ==
    /\ \A i \in 1..Len(swapLog) :
          /\ LessByEpsilon(swapLog[i].post, swapLog[i].pre)
          /\ swapLog[i].post < swapLog[i].pre
          /\ swapLog[i].pre = IF i = 1
                              THEN calculateTotalDistance(solverCall.initialRoute, cities)
                              ELSE swapLog[i - 1].post
    /\ solverPc = "twoOpt" =>
          /\ twoOptLocals.iterations = Len(swapLog)
          /\ twoOptLocals.bestDistance =
                IF swapLog = <<>>
                THEN calculateTotalDistance(solverCall.initialRoute, cities)
                ELSE swapLog[Len(swapLog)].post

ReturnedNoLonger ==
    Called("twoOpt") =>
        /\ solverResult.distance <= calculateTotalDistance(solverCall.initialRoute, cities)
        /\ solverResult.iterations = Len(swapLog)
        /\ swapLog # <<>> => solverResult.distance = swapLog[Len(swapLog)].post

\* a pass of the while loop either ends the call or leaves a shorter route
PassDecreasesOrReturns ==
    solverPc = "twoOpt" =>
        \/ solverPc' = "done" /\ twoOptLocals' = twoOptLocals
        \/ /\ solverPc' = "twoOpt"
           /\ twoOptLocals'.bestDistance < twoOptLocals.bestDistance
           /\ twoOptLocals'.bestDistance >= 0
           /\ twoOptLocals'.iterations = twoOptLocals.iterations + 1

\* the routes the loop goes through get shorter and shorter, so no two are
\* the same ordering of the n cities from the fixed first one: the accepted
\* swaps are fewer than (n - 1)!
SwapsBounded ==
    solverCall.fn = "twoOpt" => Len(swapLog) < Factorial(Len(cities) - 1)

\* C20: twoOpt terminates: every pass of its loop returns or shortens the
\* route, and it accepts fewer than (n - 1)! swaps; each swap it accepts has
\* a post-distance below its pre-distance minus EPSILON, and the distance it
\* returns is not greater than the distance of the initial route.
C20_TwoOptDecreasesAndTerminates ==
    /\ [](SwapsDecrease /\ ReturnedNoLonger /\ SwapsBounded)
    /\ [][PassDecreasesOrReturns]_vars

\* twoOpt returned after accepting two swaps
C20_Witness ==
    /\ Called("twoOpt")
    /\ Len(swapLog) >= 2
    /\ solverResult.iterations = Len(swapLog)
    /\ solverResult.distance < calculateTotalDistance(solverCall.initialRoute, cities)

(***************************************************************************)
(* The scan order of twoOpt.                                               *)
(***************************************************************************)
\* the pair p comes before the pair q in ascending i, then ascending k
ScannedBefore(p, q) == p[1] < q[1] \/ (p[1] = q[1] /\ p[2] < q[2])

\* reversing the segment q of route improves on distance by more than EPSILON
Improves(route, q, distance) ==
    distance - calculateTotalDistance(perform2OptSwap(route, q[1], q[2]), cities)
        > EpsilonScaled

\* the j-th accepted swap is the first improving pair of the route it was
\* made on, scanned from i = 1, and that route is what the swap before left
FirstImprovement(j) ==
    LET e == swapLog[j]
        q == << e.i, e.k >>
    IN  /\ q \in SwapPairs(Len(e.route))
        /\ e.route = IF j = 1 THEN baseRoute(solverCall.initialRoute)
                     ELSE perform2OptSwap(swapLog[j - 1].route,
                                          swapLog[j - 1].i, swapLog[j - 1].k)
        /\ e.pre = calculateTotalDistance(e.route, cities)
        /\ e.post = calculateTotalDistance(perform2OptSwap(e.route, e.i, e.k), cities)
        /\ Improves(e.route, q, e.pre)
        /\ \A p \in SwapPairs(Len(e.route)) :
              ScannedBefore(p, q) => ~Improves(e.route, p, e.pre)

\* the route twoOpt returned, without its closing element
ReturnedOpen == SubSeq(solverResult.route, 1, Len(solverResult.route) - 1)

\* C21: twoOpt is first-improvement with restart: each swap it accepts is the
\* first pair (i, k), in ascending i then ascending k with 1 <= i < k <= n - 1,
\* whose reversal improves the current route by more than EPSILON, the scan
\* starting again from i = 1 after every accepted swap; on return no pair
\* improves the returned route by more than EPSILON, and iterations is the
\* number of accepted swaps.
C21_FirstImprovementWithRestart ==
    solverCall.fn = "twoOpt" =>
        /\ \A j \in 1..Len(swapLog) : FirstImprovement(j)
        /\ (solverPc = "done" /\ solverResult.route # <<>>) =>
              /\ solverResult.iterations = Len(swapLog)
              /\ solverResult.distance = calculateTotalDistance(ReturnedOpen, cities)
              /\ \A q \in SwapPairs(Len(ReturnedOpen)) :
                    ~Improves(ReturnedOpen, q, solverResult.distance)
              /\ ReturnedOpen =
                    IF swapLog = <<>> THEN baseRoute(solverCall.initialRoute)
                    ELSE perform2OptSwap(swapLog[Len(swapLog)].route,
                                         swapLog[Len(swapLog)].i, swapLog[Len(swapLog)].k)

\* twoOpt returned after two swaps, the second at a pair the scan had passed
\* before it accepted the first
C21_Witness ==
    /\ Called("twoOpt")
    /\ Len(swapLog) >= 2
    /\ ScannedBefore(<< swapLog[2].i, swapLog[2].k >>, << swapLog[1].i, swapLog[1].k >>)
    /\ solverResult.iterations = Len(swapLog)

\* twoOpt went past a pair whose swap was shorter, but by no more than
\* EPSILON, and accepted a later one
PassedSmallImprovement ==
    /\ Called("twoOpt")
    /\ grain = FineGrain
    /\ Len(swapLog) >= 1
    /\ \E q \in SwapPairs(Len(swapLog[1].route)) :
          /\ ScannedBefore(q, << swapLog[1].i, swapLog[1].k >>)
          /\ calculateTotalDistance(perform2OptSwap(swapLog[1].route, q[1], q[2]), cities)
                < swapLog[1].pre

(***************************************************************************)
(* The exhaustive search against the heuristics.                           *)
(***************************************************************************)
\* the call of twoOpt in the model's steps returns what twoOpt returns
TwoOptAsOneCall ==
    Called("twoOpt") => solverResult = twoOpt(cities, solverCall.initialRoute)

\* C22: for every city set with 2 <= n <= 9, the distance bruteForceTSP
\* returns is at most the distance greedyTSP returns plus EPSILON, and at
\* most the distance twoOpt returns plus EPSILON from every initial route
\* that is a permutation of the city ids.
C22_Optimality ==
    (Called("bruteForceTSP") /\ Len(cities) >= 2 /\ Len(cities) <= MaxCities) =>
        /\ solverResult.outcome = "returned"
        /\ solverResult.distance <= greedyTSP(cities).distance + EpsilonScaled
        /\ \A r \in AllOrderings[Len(cities)] :
              solverResult.distance <= twoOpt(cities, r).distance + EpsilonScaled

\* bruteForceTSP returned a route longer than the one greedyTSP returns, and
\* longer than one twoOpt returns, by no more than EPSILON
C22_Witness ==
    /\ Called("bruteForceTSP")
    /\ Len(cities) = 4
    /\ solverResult.distance > greedyTSP(cities).distance
    /\ solverResult.distance <= greedyTSP(cities).distance + EpsilonScaled
    /\ \E r \in AllOrderings[4] : solverResult.distance > twoOpt(cities, r).distance

(***************************************************************************)
(* The incumbent of bruteForceTSP.                                         *)
(***************************************************************************)
\* the distance of the k-th permutation bruteForceTSP evaluates, closed
YieldedDistance(k) ==
    LET perm == Yielded[Len(cities)][k]
    IN  calculateTotalDistance(Append(perm, perm[1]), cities)

\* the place of the returned route in the enumeration
ReturnedAt ==
    CHOOSE k \in 1..Factorial(Len(cities)) :
        Append(Yielded[Len(cities)][k], Yielded[Len(cities)][k][1]) = solverResult.path

Evaluated == Called("bruteForceTSP") /\ Len(cities) >= 2 /\ Len(cities) <= MaxCities

\* C24 as stated: among the permutations of minimum distance bruteForceTSP
\* returns the first one in enumeration order.
C24_AsStated ==
    Evaluated =>
        /\ \A k \in 1..Factorial(Len(cities)) : solverResult.distance <= YieldedDistance(k)
        /\ \A k \in 1..(ReturnedAt - 1) : YieldedDistance(k) > solverResult.distance

\* C24: bruteForceTSP replaces its incumbent only when a candidate is smaller
\* by more than EPSILON: the route it returns is shorter than every
\* permutation enumerated before it, and no permutation is shorter than it by
\* more than EPSILON; when no permutation is longer than the shortest one by
\* EPSILON or less, it is the first permutation of minimum distance.  For the
\* 4 cities (0,0), (0,10), (10,10), (10,0) it returns distance 40 with a route
\* whose length computed by calculateTotalDistance is 40.
C24_KeepsFirst ==
    Evaluated =>
        /\ solverResult.outcome = "returned"
        /\ \E k \in 1..Factorial(Len(cities)) :
              Append(Yielded[Len(cities)][k], Yielded[Len(cities)][k][1]) = solverResult.path
        /\ solverResult.distance = calculateTotalDistance(solverResult.path, cities)
        /\ \A k \in 1..(ReturnedAt - 1) : YieldedDistance(k) > solverResult.distance
        /\ \A k \in 1..Factorial(Len(cities)) :
              YieldedDistance(k) >= solverResult.distance - EpsilonScaled
        /\ (\A j, k \in 1..Factorial(Len(cities)) :
               YieldedDistance(j) < YieldedDistance(k)
                  => YieldedDistance(k) - YieldedDistance(j) > EpsilonScaled)
             => \A k \in 1..Factorial(Len(cities)) :
                   solverResult.distance <= YieldedDistance(k)
        /\ (cities = SquareCities /\ grain = 1) =>
              /\ solverResult.distance = 40 * SCALE
              /\ calculateTotalDistance(solverResult.path, cities) = 40 * SCALE
              /\ solverResult.path = << 0, 1, 2, 3, 0 >>

\* bruteForceTSP was called with the square, where eight permutations have
\* the minimum distance 40, and returned the first of them
C24_Witness ==
    /\ Called("bruteForceTSP")
    /\ cities = SquareCities
    /\ Cardinality({ k \in 1..24 : YieldedDistance(k) = 40 * SCALE }) = 8
    /\ solverResult.distance = 40 * SCALE
    /\ ReturnedAt = 1

(***************************************************************************)
(* The step generators: generateGreedySteps (modules/greedyStepGenerator),  *)
(* generateTwoOptSteps (modules/twoOptStepGenerator, kept in               *)
(* src/unnamed/part_002) and generateBruteForceSteps with its sampling     *)
(* rate.  A step is a record with its type and the fields the claims read; *)
(* a call returns [outcome, trace], outcome "threw" for a TypeError.       *)
(***************************************************************************)
MaxSamplingRate == 7

\* perm[0] of an empty array
Undefined == 0 - 1

\* let bestPath = null
NoPath == << >>

GeneratorThrew == [outcome |-> "threw", trace |-> << >>]

\* [...route, route[0]]
Closed(route) == Append(route, IF route = << >> THEN Undefined ELSE route[1])

\* the for loop of generateBruteForceSteps from the k-th permutation on: the
\* steps it pushes, and bestDistance and bestPath after it
RECURSIVE sampledLoop(_, _, _, _, _, _)
sampledLoop(cs, perms, k, samplingRate, best, bestPath) ==
    IF k > Len(perms) THEN [trace |-> << >>, bestDistance |-> best, bestPath |-> bestPath]
    ELSE IF k % samplingRate = 0
    THEN LET perm == perms[k]
             distance == calculateTotalDistance(perm, cs)
             check == [type |-> "permutation_check", permutation |-> perm,
                       distance |-> distance, current |-> k, total |-> Len(perms)]
         IN  IF LessByEpsilon(distance, best)
             THEN LET rest == sampledLoop(cs, perms, k + 1, samplingRate, distance,
                                          Closed(perm))
                  IN  [rest EXCEPT !.trace =
                          << [type |-> "best_found", permutation |-> perm,
                              distance |-> distance, current |-> k], check >> \o @]
             ELSE LET rest == sampledLoop(cs, perms, k + 1, samplingRate, best, bestPath)
                  IN  [rest EXCEPT !.trace = << check >> \o @]
    ELSE sampledLoop(cs, perms, k + 1, samplingRate, best, bestPath)

\* a plausible slip: the last permutation is never evaluated
generateBruteForceStepsDropLast(cs, samplingRate) ==
    LET n == Len(cs)
        loop == sampledLoop(cs, SubSeq(Yielded[n], 1, Len(Yielded[n]) - 1), 1,
                            samplingRate, Infinity, NoPath)
    IN  IF loop.bestPath = NoPath THEN GeneratorThrew
        ELSE [outcome |-> "returned",
              trace |-> << [type |-> "metadata_update"] >> \o loop.trace
                        \o << [type |-> "metadata_update"],
                              [type |-> "final_result", path |-> loop.bestPath,
                               distance |-> loop.bestDistance] >>]

\* generateBruteForceSteps(cities, samplingRate); bestPath.slice raises a
\* TypeError while bestPath is null
generateBruteForceStepsSampled(cs, samplingRate) ==
    LET n == Len(cs)
        loop == sampledLoop(cs, Yielded[n], 1, samplingRate, Infinity, NoPath)
        finalPath == IF loop.bestPath[Len(loop.bestPath)] # loop.bestPath[1]
                     THEN Append(loop.bestPath, loop.bestPath[1])
                     ELSE loop.bestPath
    IN  IF loop.bestPath = NoPath THEN GeneratorThrew
        ELSE [outcome |-> "returned",
              trace |-> << [type |-> "metadata_update"] >> \o loop.trace
                        \o << [type |-> "metadata_update"],
                              [type |-> "final_result", path |-> finalPath,
                               distance |-> loop.bestDistance] >>]

\* a plausible slip: the scan for the nearest candidate replaces it on a tie
RECURSIVE nearestCandidateLastWins(_, _, _, _, _, _)
nearestCandidateLastWins(cs, currentCity, candidates, j, nearest, minDist) ==
    IF j > Len(candidates) THEN [nearest |-> nearest, minDist |-> minDist]
    ELSE LET dist == EdgeLength(cs[currentCity + 1], cs[candidates[j] + 1])
         IN  IF dist <= minDist
             THEN nearestCandidateLastWins(cs, currentCity, candidates, j + 1,
                                           candidates[j], dist)
             ELSE nearestCandidateLastWins(cs, currentCity, candidates, j + 1,
                                           nearest, minDist)

\* the scan of generateGreedySteps over the candidates from the j-th on
RECURSIVE nearestCandidate(_, _, _, _, _, _)
nearestCandidate(cs, currentCity, candidates, j, nearest, minDist) ==
    IF j > Len(candidates) THEN [nearest |-> nearest, minDist |-> minDist]
    ELSE LET dist == EdgeLength(cs[currentCity + 1], cs[candidates[j] + 1])
         IN  IF dist < minDist
             THEN nearestCandidate(cs, currentCity, candidates, j + 1, candidates[j], dist)
             ELSE nearestCandidate(cs, currentCity, candidates, j + 1, nearest, minDist)

\* the unvisited ids in ascending order
RECURSIVE candidatesFrom(_, _, _)
candidatesFrom(n, visitedIds, i) ==
    IF i >= n THEN << >>
    ELSE IF i \notin visitedIds THEN << i >> \o candidatesFrom(n, visitedIds, i + 1)
    ELSE candidatesFrom(n, visitedIds, i + 1)

\* while (visited.size < n) of generateGreedySteps: the steps it pushes, and
\* the city it ends in
RECURSIVE greedyWhile(_, _, _)
greedyWhile(cs, visitedIds, currentCity) ==
    IF Cardinality(visitedIds) >= Len(cs)
    THEN [trace |-> << >>, currentCity |-> currentCity]
    ELSE LET candidates == candidatesFrom(Len(cs), visitedIds, 0)
             found == nearestCandidate(cs, currentCity, candidates, 1, 0 - 1, Infinity)
             rest == greedyWhile(cs, visitedIds \cup { found.nearest }, found.nearest)
         IN  [rest EXCEPT !.trace =
                 [j \in 1..Len(candidates) |->
                     [type |-> "candidate_edge", fromCity |-> currentCity,
                      toCity |-> candidates[j], candidateCount |-> Len(candidates)]]
                 \o << [type |-> "decision", fromCity |-> currentCity,
                        toCity |-> found.nearest, distance |-> found.minDist],
                       [type |-> "edge_added", fromCity |-> currentCity,
                        toCity |-> found.nearest, distance |-> found.minDist] >>
                 \o @]

\* the second walk of generateGreedySteps, which rebuilds the path:
\* while (innerVisited.size < n) with its scan for (let i = 0; i < n; i++)
RECURSIVE visitedOrderLoop(_, _)
visitedOrderLoop(cs, visitedOrder) ==
    LET innerVisited == { visitedOrder[i] : i \in 1..Len(visitedOrder) }
        innerCurrent == visitedOrder[Len(visitedOrder)]
        RECURSIVE scan(_, _, _)
        scan(i, nearest, minDist) ==
            IF i >= Len(cs) THEN nearest
            ELSE LET dist == EdgeLength(cs[innerCurrent + 1], cs[i + 1])
                 IN  IF i \notin innerVisited /\ dist < minDist
                     THEN scan(i + 1, i, dist)
                     ELSE scan(i + 1, nearest, minDist)
    IN  IF Cardinality(innerVisited) >= Len(cs) THEN visitedOrder
        ELSE visitedOrderLoop(cs, Append(visitedOrder, scan(0, 0 - 1, Infinity)))

\* a plausible slip: the route_closed step is left out
generateGreedyStepsNoClose(cs) ==
    IF Len(cs) = 0 THEN GeneratorThrew
    ELSE LET loop == greedyWhile(cs, { 0 }, 0)
             visitedOrder == Append(visitedOrderLoop(cs, << 0 >>), 0)
         IN  [outcome |-> "returned",
              trace |-> << [type |-> "metadata_update"] >> \o loop.trace
                        \o << [type |-> "metadata_update"],
                              [type |-> "final_result", path |-> visitedOrder,
                               distance |-> calculateTotalDistance(visitedOrder, cs)] >>]

\* generateGreedySteps(cities); cities[0].x raises a TypeError on an empty list
generateGreedySteps(cs) ==
    IF Len(cs) = 0 THEN GeneratorThrew
    ELSE LET loop == greedyWhile(cs, { 0 }, 0)
             visitedOrder == Append(visitedOrderLoop(cs, << 0 >>), 0)
         IN  [outcome |-> "returned",
              trace |-> << [type |-> "metadata_update"] >> \o loop.trace
                        \o << [type |-> "route_closed", fromCity |-> loop.currentCity,
                               toCity |-> 0],
                              [type |-> "metadata_update"],
                              [type |-> "final_result", path |-> visitedOrder,
                               distance |-> calculateTotalDistance(visitedOrder, cs)] >>]

\* a plausible slip: after a swap the scan goes on from the next pair
RECURSIVE twoOptStepsResuming(_, _, _, _, _)
twoOptStepsResuming(cs, route, currentDistance, i, k) ==
    LET n == Len(route)
    IN  IF i >= n - 1
        THEN << [type |-> "final", currentRoute |-> Closed(route),
                 distance |-> currentDistance] >>
        ELSE IF k >= n THEN twoOptStepsResuming(cs, route, currentDistance, i + 1, i + 2)
        ELSE LET candidateRoute == perform2OptSwap(route, i, k)
                 candidateDistance == calculateTotalDistance(candidateRoute, cs)
                 compare == [type |-> "compare", currentRoute |-> Closed(route),
                             distance |-> currentDistance, swapIndices |-> << i, k >>]
             IN  IF LessByEpsilon(candidateDistance, currentDistance)
                 THEN << compare,
                         [type |-> "swap", currentRoute |-> Closed(candidateRoute),
                          distance |-> candidateDistance, swapIndices |-> << i, k >>] >>
                      \o twoOptStepsResuming(cs, candidateRoute, candidateDistance, i, k + 1)
                 ELSE << compare >>
                      \o twoOptStepsResuming(cs, route, currentDistance, i, k + 1)

\* while (improved) of generateTwoOptSteps from the pair (i, k) on, and the
\* final step
RECURSIVE twoOptSteps(_, _, _, _, _)
twoOptSteps(cs, route, currentDistance, i, k) ==
    LET n == Len(route)
    IN  IF i >= n - 1
        THEN << [type |-> "final", currentRoute |-> Closed(route),
                 distance |-> currentDistance] >>
        ELSE IF k >= n THEN twoOptSteps(cs, route, currentDistance, i + 1, i + 2)
        ELSE LET candidateRoute == perform2OptSwap(route, i, k)
                 candidateDistance == calculateTotalDistance(candidateRoute, cs)
                 compare == [type |-> "compare", currentRoute |-> Closed(route),
                             distance |-> currentDistance, swapIndices |-> << i, k >>]
             IN  IF LessByEpsilon(candidateDistance, currentDistance)
                 THEN << compare,
                         [type |-> "swap", currentRoute |-> Closed(candidateRoute),
                          distance |-> candidateDistance, swapIndices |-> << i, k >>] >>
                      \o twoOptSteps(cs, candidateRoute, candidateDistance, 1, 2)
                 ELSE << compare >> \o twoOptSteps(cs, route, currentDistance, i, k + 1)

\* generateTwoOptSteps(cities, initialRoute); << >> is the default null
generateTwoOptSteps(cs, initialRoute) ==
    IF Len(cs) < 2
    THEN [outcome |-> "returned",
          trace |-> << [type |-> "final", currentRoute |-> << >>, distance |-> 0] >>]
    ELSE LET startRoute == baseRoute(IF Len(initialRoute) > 1 THEN initialRoute
                                     ELSE greedyTSP(cs).path)
         IN  [outcome |-> "returned",
              trace |-> twoOptSteps(cs, startRoute,
                                    calculateTotalDistance(startRoute, cs), 1, 2)]

\* the pairs twoOpt hands to perform2OptSwap, in order, from (i, k) on
RECURSIVE twoOptTested(_, _, _, _, _)
twoOptTested(cs, route, best, i, k) ==
    LET n == Len(route)
    IN  IF i >= n - 1 THEN << >>
        ELSE IF k >= n THEN twoOptTested(cs, route, best, i + 1, i + 2)
        ELSE LET newRoute == perform2OptSwap(route, i, k)
                 newDistance == calculateTotalDistance(newRoute, cs)
             IN  IF LessByEpsilon(newDistance, best)
                 THEN << << i, k >> >> \o twoOptTested(cs, newRoute, newDistance, 1, 2)
                 ELSE << << i, k >> >> \o twoOptTested(cs, route, best, i, k + 1)

(***************************************************************************)
(* The generators and calculateTotalDistance as calls, one step each.      *)
(***************************************************************************)
\* the lists a generator is called with: up to MaxCities distinct points, and
\* the square, where two cities are equally near to city 0
GeneratorCityLists ==
    UNION { { cs \in [1..n -> Points] : \A i, j \in 1..n : i # j => cs[i] # cs[j] } :
            n \in 0..MaxCities }
    \cup { SquareCities }

\* the routes calculateTotalDistance is called with: distinct ids, open or
\* closed
Routes ==
    [n \in 0..MaxCities |->
        LET open == UNION { { r \in [1..m -> 0..(n - 1)] :
                                \A i, j \in 1..m : i # j => r[i] # r[j] } : m \in 0..n }
        IN  open \cup { Append(r, r[1]) : r \in open \ { << >> } }]

\* the initial routes generateTwoOptSteps is called with: the default, or an
\* ordering of the city ids, open or closed
GeneratorRoutes ==
    [n \in 0..MaxCities |->
        { << >> } \cup AllOrderings[n]
        \cup { Append(r, r[1]) : r \in AllOrderings[n] \ { << >> } }]

GeneratorInit ==
    /\ cities \in GeneratorCityLists
    /\ grain \in { 1, FineGrain }
    /\ livePc = "init"
    /\ permutationsChecked = 0
    /\ bestDistance = Infinity
    /\ bestRoute = <<>>
    /\ isCancelled = FALSE
    /\ progressLog = <<>>
    /\ cancelledAt = NoCancel
    /\ renders = 0
    /\ CtlInit
    /\ SolverIdle
    /\ AppIdle

GeneratorCall(call, result) ==
    /\ solverPc = "idle"
    /\ solverCall' = call
    /\ solverResult' = result
    /\ solverPc' = "done"
    /\ UNCHANGED <<twoOptLocals, swapLog>>
    /\ SolverFrame

CallCalculateTotalDistance ==
    /\ solverPc = "idle"
    /\ \E route \in Routes[Len(cities)] :
        GeneratorCall([fn |-> "calculateTotalDistance", route |-> route],
                      [outcome |-> "returned",
                       distance |-> calculateTotalDistance(route, cities)])

CallGenerateGreedySteps ==
    /\ solverPc = "idle"
    /\ GeneratorCall([fn |-> "generateGreedySteps"], generateGreedySteps(cities))

CallGenerateTwoOptSteps ==
    /\ solverPc = "idle"
    /\ \E initialRoute \in GeneratorRoutes[Len(cities)] :
        GeneratorCall([fn |-> "generateTwoOptSteps", initialRoute |-> initialRoute],
                      generateTwoOptSteps(cities, initialRoute))

CallGenerateBruteForceSteps ==
    /\ solverPc = "idle"
    /\ \E samplingRate \in 1..MaxSamplingRate :
        GeneratorCall([fn |-> "generateBruteForceSteps", samplingRate |-> samplingRate],
                      generateBruteForceStepsSampled(cities, samplingRate))

GeneratorNext ==
    \/ CallCalculateTotalDistance
    \/ CallGenerateGreedySteps
    \/ CallGenerateTwoOptSteps
    \/ CallGenerateBruteForceSteps

SpecGenerators == GeneratorInit /\ [][GeneratorNext]_vars

(***************************************************************************)
(* Properties of calculateTotalDistance and of the generators.             *)
(***************************************************************************)
IsOpenRoute(route) == route # << >> /\ (Len(route) = 1 \/ route[1] # route[Len(route)])

\* C30: for every open route R of distinct city ids, of any length,
\* calculateTotalDistance(R) equals calculateTotalDistance of R with R[0]
\* appended: the length of the cycle through R, its closing edge counted
\* once; a route of fewer than 2 ids has length 0.
C30_ClosureInvariance ==
    (Called("calculateTotalDistance") /\ IsOpenRoute(solverCall.route)) =>
        /\ solverResult.distance
             = calculateTotalDistance(Closed(solverCall.route), cities)
        /\ solverResult.distance = CycleLength(solverCall.route)
        /\ Len(solverCall.route) < 2 => solverResult.distance = 0

\* calculateTotalDistance was called with an open route of two cities, and
\* counted the edge between them twice: there and back
C30_Witness ==
    /\ Called("calculateTotalDistance")
    /\ Len(solverCall.route) = 2
    /\ IsOpenRoute(solverCall.route)
    /\ solverResult.distance > 0
    /\ solverResult.distance
         = 2 * EdgeLength(cities[solverCall.route[1] + 1], cities[solverCall.route[2] + 1])

\* the steps of a trace that have the given type, in order
OfType(trace, type) == SelectSeq(trace, LAMBDA s : s.type = type)

\* C23: with samplingRate 1, generateBruteForceSteps emits exactly n!
\* permutation_check steps, one for each permutation of the n city ids with
\* none repeated or missing, numbered 1..n! in emission order (24 for n = 4).
C23_PermutationCount ==
    (Called("generateBruteForceSteps") /\ solverCall.samplingRate = 1) =>
        LET n == Len(cities)
            checks == OfType(solverResult.trace, "permutation_check")
        IN  /\ solverResult.outcome = "returned"
            /\ Len(checks) = Factorial(n)
            /\ n = 4 => Len(checks) = 24
            /\ \A k \in 1..Len(checks) :
                  /\ checks[k].current = k
                  /\ checks[k].total = Factorial(n)
                  /\ checks[k].permutation \in AllOrderings[n]
            /\ \A p \in AllOrderings[n] :
                  Cardinality({ k \in 1..Len(checks) : checks[k].permutation = p }) = 1

\* generateBruteForceSteps was called with 4 cities and samplingRate 1, and
\* its 24th permutation_check step holds the last permutation
C23_Witness ==
    /\ Called("generateBruteForceSteps")
    /\ solverCall.samplingRate = 1
    /\ Len(cities) = 4
    /\ LET checks == OfType(solverResult.trace, "permutation_check")
       IN  /\ Len(checks) = 24
           /\ checks[24].current = 24
           /\ checks[24].permutation = << 3, 2, 1, 0 >>

\* the last step of the trace a call returned
FinalStep == solverResult.trace[Len(solverResult.trace)]

\* the shortest of the n! permutations, by the length of its cycle
MinimumDistance ==
    LET all == { calculateTotalDistance(p, cities) : p \in AllOrderings[Len(cities)] }
    IN  CHOOSE d \in all : \A e \in all : d <= e

\* C25 as stated: for every samplingRate >= 1 the call does not raise, and
\* its final_result step carries the distance it carries with samplingRate 1,
\* the minimum over all n! permutations (to within EPSILON, which is what
\* the incumbent rule gives with samplingRate 1).
C25_AsStated ==
    Called("generateBruteForceSteps") =>
        /\ solverResult.outcome = "returned"
        /\ FinalStep.type = "final_result"
        /\ FinalStep.distance
             = generateBruteForceStepsSampled(cities, 1).trace[
                   Len(generateBruteForceStepsSampled(cities, 1).trace)].distance
        /\ FinalStep.distance <= MinimumDistance + EpsilonScaled

\* what the code does: only the sampled permutations take part in the
\* best-distance bookkeeping, so the final_result step carries a distance of
\* one of them, and the call raises when none was sampled
C25_SampledOnly ==
    Called("generateBruteForceSteps") =>
        LET rate == solverCall.samplingRate
            sampled == { k \in 1..Factorial(Len(cities)) : k % rate = 0 }
        IN  IF sampled = {} THEN solverResult.outcome = "threw"
            ELSE /\ solverResult.outcome = "returned"
                 /\ \E k \in sampled :
                       FinalStep.distance
                         = calculateTotalDistance(Yielded[Len(cities)][k], cities)

TerminalTypes == { "final_result", "final" }

\* a trace ends with a terminal step and has none before it
EndsTerminal(trace) ==
    /\ trace # << >>
    /\ trace[Len(trace)].type \in TerminalTypes
    /\ \A i \in 1..(Len(trace) - 1) : trace[i].type \notin TerminalTypes

GeneratorCalled ==
    /\ solverPc = "done"
    /\ solverCall.fn \in { "generateGreedySteps", "generateTwoOptSteps",
                           "generateBruteForceSteps" }

\* C26 as stated: for every city list, lists of 0 or 1 cities included, each
\* of generateGreedySteps, generateTwoOptSteps and generateBruteForceSteps
\* (samplingRate 1) returns a non-empty trace whose last element has a
\* terminal type and in which no earlier element has one.
C26_AsStated ==
    (GeneratorCalled /\ (solverCall.fn = "generateBruteForceSteps"
                            => solverCall.samplingRate = 1)) =>
        /\ solverResult.outcome = "returned"
        /\ EndsTerminal(solverResult.trace)

\* what the code does: generateGreedySteps raises on the empty list, and
\* every other call returns such a trace
C26_ExceptGreedyOnEmpty ==
    (GeneratorCalled /\ (solverCall.fn = "generateBruteForceSteps"
                            => solverCall.samplingRate = 1)) =>
        IF solverCall.fn = "generateGreedySteps" /\ cities = << >>
        THEN solverResult.outcome = "threw"
        ELSE solverResult.outcome = "returned" /\ EndsTerminal(solverResult.trace)

\* a trace without its metadata_update steps
WithoutMetadata(trace) == SelectSeq(trace, LAMBDA s : s.type # "metadata_update")

\* where iteration j of the greedy trace starts, the metadata steps left out:
\* the iterations before it hold n - i candidates, a decision and a commit
IterationStart(n, j) ==
    LET RECURSIVE Before(_)
        Before(i) == IF i >= j THEN 0 ELSE (n - i) + 2 + Before(i + 1)
    IN  1 + Before(1)

\* iteration j of the trace t of n cities: n - j candidate_edge steps from the
\* current city to the unvisited cities in ascending id, a decision, and an
\* edge_added with the decision's cities
IsIteration(t, n, j) ==
    LET at == IterationStart(n, j)
        decision == t[at + (n - j)]
        added == t[at + (n - j) + 1]
        from == decision.fromCity
        gone == { 0 } \cup { t[IterationStart(n, i) + (n - i)].toCity : i \in 1..(j - 1) }
    IN  /\ \A c \in 0..(n - j - 1) :
              /\ t[at + c].type = "candidate_edge"
              /\ t[at + c].fromCity = from
              /\ t[at + c].toCity \notin gone
              /\ c > 0 => t[at + c - 1].toCity < t[at + c].toCity
        /\ decision.type = "decision"
        /\ from = IF j = 1 THEN 0 ELSE t[IterationStart(n, j - 1) + (n - j + 1)].toCity
        /\ decision.toCity \in { t[at + c].toCity : c \in 0..(n - j - 1) }
        /\ added.type = "edge_added"
        /\ added.fromCity = decision.fromCity
        /\ added.toCity = decision.toCity

\* C27: for n >= 2 cities the greedy trace, its metadata_update steps left
\* out, consists of n - 1 iterations in order: iteration j emits exactly n - j
\* candidate_edge steps, one per still-unvisited city in ascending id and all
\* from the current city, then one decision step, then one edge_added step
\* with the decision's fromCity and toCity; after the last iteration exactly
\* one route_closed step back to city 0 follows, and the trace ends with a
\* final_result step.
C27_GreedyTrace ==
    (Called("generateGreedySteps") /\ Len(cities) >= 2) =>
        LET n == Len(cities)
            t == WithoutMetadata(solverResult.trace)
            end == IterationStart(n, n)
        IN  /\ solverResult.outcome = "returned"
            /\ Len(t) = end + 1
            /\ \A j \in 1..(n - 1) : IsIteration(t, n, j)
            /\ t[end].type = "route_closed"
            /\ t[end].fromCity = t[end - 1].toCity
            /\ t[end].toCity = 0
            /\ t[end + 1].type = "final_result"
            /\ t[end + 1] = solverResult.trace[Len(solverResult.trace)]
            /\ Len(OfType(solverResult.trace, "route_closed")) = 1
            /\ t[end + 1].path = greedyTSP(cities).path
            /\ t[end + 1].distance = greedyTSP(cities).distance

\* generateGreedySteps was called with 4 cities: 3 + 2 + 1 candidate_edge
\* steps, 3 decisions, 3 commits, the closing step and the final one
C27_Witness ==
    /\ Called("generateGreedySteps")
    /\ Len(cities) = 4
    /\ Len(OfType(solverResult.trace, "candidate_edge")) = 6
    /\ Len(OfType(solverResult.trace, "decision")) = 3
    /\ Len(OfType(solverResult.trace, "edge_added")) = 3
    /\ Len(WithoutMetadata(solverResult.trace)) = 14

\* the initial route of the call is an ordering of the city ids
FromPermutation == solverCall.initialRoute \in AllOrderings[Len(cities)]

\* C28: generateTwoOptSteps matches twoOpt's decisions: for the same cities
\* and the same initial route (a permutation of the city ids) it emits one
\* compare step per pair twoOpt tests, in the same (i, k) order, exactly one
\* swap step per accepted swap, so that the swap steps are as many as
\* twoOpt's iterations, and a final step whose closed route and distance are
\* the route and distance twoOpt returns.
C28_MatchesTwoOpt ==
    (Called("generateTwoOptSteps") /\ FromPermutation) =>
        LET route == solverCall.initialRoute
            returned == twoOpt(cities, route)
            compares == OfType(solverResult.trace, "compare")
            swaps == OfType(solverResult.trace, "swap")
            tested == IF Len(cities) < 3 THEN << >>
                      ELSE twoOptTested(cities, baseRoute(route),
                                        calculateTotalDistance(baseRoute(route), cities),
                                        1, 2)
        IN  /\ solverResult.outcome = "returned"
            /\ [j \in 1..Len(compares) |-> compares[j].swapIndices] = tested
            /\ Len(swaps) = returned.iterations
            /\ \A j \in 1..Len(solverResult.trace) :
                  solverResult.trace[j].type = "swap"
                     => /\ j > 1
                        /\ solverResult.trace[j - 1].type = "compare"
                        /\ solverResult.trace[j - 1].swapIndices
                             = solverResult.trace[j].swapIndices
            /\ FinalStep.type = "final"
            /\ FinalStep.currentRoute = returned.route
            /\ FinalStep.distance = returned.distance
            /\ Len(solverResult.trace) = Len(compares) + Len(swaps) + 1

\* generateTwoOptSteps was called with 4 cities and an ordering of their ids,
\* and emitted two swap steps among its compare steps
C28_Witness ==
    /\ Called("generateTwoOptSteps")
    /\ Len(cities) = 4
    /\ FromPermutation
    /\ Len(OfType(solverResult.trace, "swap")) = 2
    /\ twoOpt(cities, solverCall.initialRoute).iterations = 2
    /\ Len(OfType(solverResult.trace, "compare")) > 3


(***************************************************************************)
(* The live search next to bruteForceTSP, over both coordinate grains.     *)
(***************************************************************************)
LiveInitAnyGrain ==
    /\ cities \in CityLists
    /\ grain \in { 1, FineGrain }
    /\ livePc = "init"
    /\ permutationsChecked = 0
    /\ bestDistance = Infinity
    /\ bestRoute = <<>>
    /\ isCancelled = FALSE
    /\ progressLog = <<>>
    /\ cancelledAt = NoCancel
    /\ renders = 0

InitLiveAnyGrain == LiveInitAnyGrain /\ CtlInit /\ SolverIdle /\ AppIdle

SpecLiveAnyGrain == InitLiveAnyGrain /\ [][LiveNext]_vars

\* the live search went through every permutation and returned
CompletedNaturally ==
    /\ livePc = "resolved"
    /\ ~isCancelled
    /\ permutationsChecked = Len(Yielded[Len(cities)])

C29_FromTwoCities ==
    (CompletedNaturally /\ Len(cities) >= 2) =>
        /\ bestRoute = bruteForceTSP(cities).path
        /\ bestDistance = bruteForceTSP(cities).distance

\* at whole coordinates, where no two distances differ by less than EPSILON
\* without being equal, the two searches agree from two cities on
C29_AtWholeCoordinates ==
    (CompletedNaturally /\ Len(cities) >= 2 /\ grain = 1) =>
        /\ bestRoute = bruteForceTSP(cities).path
        /\ bestDistance = bruteForceTSP(cities).distance


\* city 0, the toCity of each edge_added step in trace order, then 0
WalkedPath(trace) ==
    LET added == OfType(trace, "edge_added")
    IN  << 0 >> \o [j \in 1..Len(added) |-> added[j].toCity] \o << 0 >>

\* C37: generateGreedySteps matches greedyTSP: for every city list with at
\* least 2 cities, city 0 followed by the toCity of each edge_added step and
\* then 0 is the path of the final_result step and the path greedyTSP
\* returns, and the final_result distance is the distance greedyTSP returns.
C37_MatchesGreedyTSP ==
    (Called("generateGreedySteps") /\ Len(cities) >= 2) =>
        /\ solverResult.outcome = "returned"
        /\ FinalStep.type = "final_result"
        /\ WalkedPath(solverResult.trace) = FinalStep.path
        /\ WalkedPath(solverResult.trace) = greedyTSP(cities).path
        /\ FinalStep.distance = greedyTSP(cities).distance

\* generateGreedySteps returned for 4 cities of which two are equally near to
\* city 0 and nearer than the third, and went to the one with the lower id
C37_Witness ==
    /\ Called("generateGreedySteps")
    /\ Len(cities) = 4
    /\ solverResult.outcome = "returned"
    /\ \E a, b \in 2..4 :
          /\ a < b
          /\ EdgeLength(cities[1], cities[a]) = EdgeLength(cities[1], cities[b])
          /\ \A c \in 2..4 : EdgeLength(cities[1], cities[a]) <= EdgeLength(cities[1], cities[c])
          /\ WalkedPath(solverResult.trace)[2] = a - 1


\* route holds each of the ids 0..n-1 once
IsOrdering(route, n) ==
    /\ Len(route) = n
    /\ { route[i] : i \in 1..Len(route) } = 0..(n - 1)

\* twoOpt was called with an ordering of the city ids, open or closed
TwoOptFromOrdering ==
    /\ solverCall.fn = "twoOpt"
    /\ solverPc \in { "twoOpt", "done" }
    /\ Len(cities) >= 1
    /\ IsOrdering(baseRoute(solverCall.initialRoute), Len(cities))

\* the route twoOpt holds, in the loop and on return, keeps the cities and
\* the first city of the initial route, and the returned route is closed
KeepsCitiesAndStart ==
    /\ solverPc = "twoOpt" =>
          /\ IsOrdering(twoOptLocals.route, Len(cities))
          /\ twoOptLocals.route[1] = solverCall.initialRoute[1]
    /\ solverPc = "done" =>
          /\ Len(solverResult.route) = Len(cities) + 1
          /\ IsOrdering(ReturnedOpen, Len(cities))
          /\ solverResult.route[1] = solverCall.initialRoute[1]
          /\ solverResult.route[Len(solverResult.route)] = solverCall.initialRoute[1]

\* C38 as stated: for every initial route that is a permutation of the city
\* ids, open or closed, after every accepted swap and on return the open
\* route is a permutation of the same ids with the same first element, and
\* the returned route is closed on the initial route's first id.
C38_AsStated == TwoOptFromOrdering => KeepsCitiesAndStart

\* C38: the same for lists of at least 2 cities; with a single city twoOpt
\* returns the empty route.
C38_KeepsCitiesAndStart ==
    /\ (TwoOptFromOrdering /\ Len(cities) >= 2) => KeepsCitiesAndStart
    /\ (TwoOptFromOrdering /\ Len(cities) < 2) => solverResult.route = << >>

\* twoOpt returned after at least one swap, called with a closed route over
\* 4 cities that starts at another city than city 0
C38_Witness ==
    /\ TwoOptFromOrdering
    /\ solverPc = "done"
    /\ Len(cities) = 4
    /\ Len(solverCall.initialRoute) = 5
    /\ solverCall.initialRoute[1] # 0
    /\ Len(swapLog) >= 1
    /\ \E j \in 1..Len(swapLog) : swapLog[j].i = 1


(***************************************************************************)
(* The controller's timer.                                                 *)
(***************************************************************************)
\* C35: with hooks that do not call back into the controller, in every state
\* reached by the controller's operations and timer ticks isPlaying is true
\* exactly when a recurring timer is scheduled (playbackInterval is set), and
\* at most one timer created by the controller is live: while playing it is
\* the one playbackInterval names, and otherwise there is none.
C35_OneTimerWhilePlaying ==
    /\ isPlaying <=> playbackInterval # NoTimer
    /\ Cardinality(timers) <= 1
    /\ isPlaying => \E t \in timers : t.id = playbackInterval
    /\ ~isPlaying => timers = {}

\* setPlaybackSpeed was called while playing and has replaced the timer by
\* one with the new period
C35_Witness ==
    /\ lastOp = "setPlaybackSpeed"
    /\ before.playing
    /\ isPlaying
    /\ playbackSpeed = 250
    /\ timers = { [id |-> playbackInterval, ms |-> 250] }

\* the steps addSteps can leave in an empty controller
AddedSteps ==
    { SelectSeq(stepsArray, LAMBDA step : step # "") :
        stepsArray \in SeqsUpTo(StepInputs, MaxSteps) }

\* C36: with hooks that do not call back, initialize called while the
\* controller is playing an earlier trace cancels that trace's timer: after
\* initialize the controller is stopped with no step and no timer, and after
\* the addSteps that follows currentStepIndex is -1, isPlaying is false, the
\* steps are the newly added ones and no timer of the earlier trace is left
\* to advance the index.
C36_InitializeCancelsTimer ==
    [][ /\ lastOp' = "initialize" =>
              /\ currentStepIndex' = -1
              /\ ~isPlaying'
              /\ steps' = << >>
              /\ timers' = {}
              /\ playbackInterval' = NoTimer
        /\ (lastOp = "initialize" /\ lastOp' = "addSteps") =>
              /\ currentStepIndex' = -1
              /\ ~isPlaying'
              /\ steps' \in AddedSteps
              /\ timers' = {}
              /\ playbackInterval' = NoTimer ]_vars

\* initialize was called while the controller was playing, in the middle of
\* a trace
C36_Witness ==
    /\ lastOp = "initialize"
    /\ before.playing
    /\ before.index >= 0
    /\ ~isPlaying
    /\ timers = {}

(***************************************************************************)
(* The page script (src/unnamed/part_004): the handlers of the algorithm   *)
(* buttons, of the Generate button and of the city-count slider, with the  *)
(* busy flag state.isAnimating.  A handler runs to its first suspension in *)
(* one step; runGreedyAlgorithm and runTwoOptAlgorithm have none.          *)
(* runBruteForceLive is also an export of its module and can be called     *)
(* without the handler (LiveStart).  The model follows one live search and *)
(* one runAllAlgorithms call at a time per behaviour.                      *)
(***************************************************************************)
\* the alerts a behaviour is followed through
MaxAlerts == 2

\* the lists generateCities is followed through when it is called again:
\* none (canvas too small), two cities, and the corners of a rectangle in
\* an order that crosses
GeneratedCityLists ==
    { << >>,
      << <<0, 0>>, <<4, 3>> >>,
      << <<0, 0>>, <<4, 3>>, <<0, 3>>, <<4, 0>> >> }

\* the lists the page holds at first: those, or one city more than
\* OPTIMAL_CITY_LIMIT
AppCityLists ==
    GeneratedCityLists \cup { GridCities(OPTIMAL_CITY_LIMIT + 1) }

AppInit ==
    /\ cities \in AppCityLists
    /\ grain = 1
    /\ livePc = "init"
    /\ permutationsChecked = 0
    /\ bestDistance = Infinity
    /\ bestRoute = <<>>
    /\ isCancelled = FALSE
    /\ progressLog = <<>>
    /\ cancelledAt = NoCancel
    /\ renders = 0
    /\ CtlInit
    /\ SolverIdle
    /\ AppIdle

\* what a handler can write besides the alerts and the controller
runVars == <<isAnimating, bruteForceController, results, diagnostics>>

\* the handler returns at its first lines
Refused(message) ==
    /\ alerts' = Append(alerts, message)
    /\ UNCHANGED <<liveVars, ctlVars, runVars>>

\* stepController.initialize(...); stepController.addSteps(steps)
Loaded(trace) == addSteps(initialize(This), [j \in 1..Len(trace) |-> trace[j].type])

\* a plausible slip: runGreedyAlgorithm does not look at the busy flag
runGreedyAlgorithmNoGuard ==
    IF Len(stateCities) < 2 THEN Refused("Generate at least 2 cities")
    ELSE /\ Commit(Loaded(generateGreedySteps(stateCities).trace), "runGreedyAlgorithm")
         /\ results' = [results EXCEPT !.greedy = greedyTSP(stateCities).distance]
         /\ isAnimating' = FALSE
         /\ UNCHANGED <<liveVars, quiet, visited, alerts, bruteForceController, diagnostics>>

\* runGreedyAlgorithm(): it takes the busy flag, loads the controller with
\* the trace, stores the greedy result and releases the flag
runGreedyAlgorithm ==
    IF Len(stateCities) < 2 THEN Refused("Generate at least 2 cities")
    ELSE IF isAnimating THEN UNCHANGED <<liveVars, ctlVars, runVars, alerts>>
    ELSE /\ Commit(Loaded(generateGreedySteps(stateCities).trace), "runGreedyAlgorithm")
         /\ results' = [results EXCEPT !.greedy = greedyTSP(stateCities).distance]
         /\ isAnimating' = FALSE
         /\ UNCHANGED <<liveVars, quiet, visited, alerts, bruteForceController, diagnostics>>

\* runTwoOptAlgorithm(): the same around generateTwoOptSteps and twoOpt,
\* both started from the greedy route
runTwoOptAlgorithm ==
    IF Len(stateCities) < 2 THEN Refused("Generate at least 2 cities")
    ELSE IF isAnimating THEN UNCHANGED <<liveVars, ctlVars, runVars, alerts>>
    ELSE LET initialRoute == greedyTSP(stateCities).path
         IN  /\ Commit(Loaded(generateTwoOptSteps(stateCities, initialRoute).trace),
                       "runTwoOptAlgorithm")
             /\ results' = [results EXCEPT
                               !.twoOpt = twoOpt(stateCities, initialRoute).distance]
             /\ isAnimating' = FALSE
             /\ UNCHANGED <<liveVars, quiet, visited, alerts, bruteForceController,
                            diagnostics>>

\* a plausible slip: the size guard comes after the busy flag is taken
runBruteForceAlgorithmKeepsFlag ==
    IF Len(stateCities) < 2 THEN Refused("Generate at least 2 cities")
    ELSE IF isAnimating THEN UNCHANGED <<liveVars, ctlVars, runVars, alerts>>
    ELSE IF Len(stateCities) > OPTIMAL_CITY_LIMIT
    THEN /\ alerts' = Append(alerts, "Brute Force limited to 9 cities maximum")
         /\ isAnimating' = TRUE
         /\ UNCHANGED <<liveVars, ctlVars, bruteForceController, results, diagnostics>>
    ELSE /\ livePc = "init"
         /\ cities = stateCities
         /\ LiveStartBody
         /\ isCancelled' = isCancelled
         /\ isAnimating' = TRUE
         /\ bruteForceController' = TRUE
         /\ UNCHANGED <<cities, grain, ctlVars, alerts, results, diagnostics>>

\* runBruteForceAlgorithm() up to its first suspension: the guards, the busy
\* flag, the controller (isCancelled: false), and runBruteForceLive on
\* state.cities up to its first await, with a progress callback that only
\* writes to the page; a rejection is caught, alerted, and the flag and the
\* controller released
runBruteForceAlgorithm ==
    IF Len(stateCities) < 2 THEN Refused("Generate at least 2 cities")
    ELSE IF Len(stateCities) > OPTIMAL_CITY_LIMIT
    THEN Refused("Brute Force limited to 9 cities maximum")
    ELSE IF isAnimating THEN UNCHANGED <<liveVars, ctlVars, runVars, alerts>>
    ELSE /\ livePc = "init"
         /\ cities = stateCities
         /\ LiveStartBody
         /\ isCancelled' = isCancelled
         /\ isAnimating' = (livePc' # "rejected")
         /\ bruteForceController' = (livePc' # "rejected")
         /\ alerts' = IF livePc' = "rejected"
                      THEN Append(alerts, "Error running Brute Force algorithm")
                      ELSE alerts
         /\ UNCHANGED <<cities, grain, ctlVars, results, diagnostics>>

\* generateBruteForceSteps(state.cities), for each list generateCities can
\* have put there
GeneratedSteps ==
    [cs \in GeneratedCityLists |-> generateBruteForceStepsSampled(cs, 1)]

\* a plausible slip: the handler returns from inside its try block when the
\* search was cancelled, before the lines that release the flag
finishBruteForceAlgorithmReturnsOnCancel ==
    LET generated == GeneratedSteps[stateCities]
        stored == [results EXCEPT !.optimal = bestDistance', !.optimalOn = cities]
    IN  IF isCancelled
        THEN UNCHANGED <<ctlVars, runVars, alerts>>
        ELSE /\ results' = stored
             /\ IF generated.outcome = "threw"
                THEN /\ alerts' = Append(alerts, "Error running Brute Force algorithm")
                     /\ UNCHANGED <<ctlVars, diagnostics>>
                ELSE /\ Commit([Loaded(generated.trace) EXCEPT
                                   !.currentStepIndex = Len(generated.trace) - 1],
                               "runBruteForceAlgorithm")
                     /\ diagnostics' =
                           \/ diagnostics
                           \/ stored.twoOpt > 0 /\ LessByEpsilon(stored.twoOpt, stored.optimal)
                           \/ stored.greedy > 0 /\ LessByEpsilon(stored.greedy, stored.optimal)
                     /\ UNCHANGED <<quiet, visited, alerts>>
             /\ isAnimating' = FALSE
             /\ bruteForceController' = FALSE

\* runBruteForceAlgorithm() after runBruteForceLive has resolved: it stores
\* the returned distance as the optimal one, loads the controller with the
\* trace generated for state.cities and jumps to its last step, compares the
\* stored heuristic distances with the optimal one, and releases the flag
\* and the controller; an error on the way is caught and alerted
finishBruteForceAlgorithm ==
    LET generated == GeneratedSteps[stateCities]
        stored == [results EXCEPT !.optimal = bestDistance', !.optimalOn = cities]
    IN  /\ results' = stored
        /\ IF generated.outcome = "threw"
           THEN /\ alerts' = Append(alerts, "Error running Brute Force algorithm")
                /\ UNCHANGED <<ctlVars, diagnostics>>
           ELSE /\ Commit([Loaded(generated.trace) EXCEPT
                              !.currentStepIndex = Len(generated.trace) - 1],
                          "runBruteForceAlgorithm")
                /\ diagnostics' =
                      \/ diagnostics
                      \/ stored.twoOpt > 0 /\ LessByEpsilon(stored.twoOpt, stored.optimal)
                      \/ stored.greedy > 0 /\ LessByEpsilon(stored.greedy, stored.optimal)
                /\ UNCHANGED <<quiet, visited, alerts>>
        /\ isAnimating' = FALSE
        /\ bruteForceController' = FALSE

\* a click on the Run Greedy button
RunGreedyAlgorithm ==
    /\ Len(alerts) < MaxAlerts
    /\ runGreedyAlgorithm
    /\ UNCHANGED <<stateCities, runAllPc, solverVars>>

\* a click on the Run 2-opt button
RunTwoOptAlgorithm ==
    /\ Len(alerts) < MaxAlerts
    /\ runTwoOptAlgorithm
    /\ UNCHANGED <<stateCities, runAllPc, solverVars>>

\* a click on the Brute Force button
RunBruteForceAlgorithm ==
    /\ Len(alerts) < MaxAlerts
    /\ runBruteForceAlgorithm
    /\ UNCHANGED <<stateCities, runAllPc, solverVars>>

\* the timeout or animation frame that an await of the handler's live
\* search waits for arrives, and the search goes on to its next await or to
\* its return
LiveTimerFires ==
    /\ livePc = "suspended"
    /\ isAnimating
    /\ LiveResumeBody
    /\ isCancelled' = isCancelled

\* the handler's run goes on after an await of runBruteForceLive, and when
\* that has resolved, to the handler's end
ResumeBruteForceAlgorithm ==
    /\ LiveTimerFires
    /\ IF livePc' = "resolved"
       THEN finishBruteForceAlgorithm
       ELSE UNCHANGED <<ctlVars, runVars, alerts>>
    /\ UNCHANGED <<cities, grain, stateCities, runAllPc, solverVars>>

\* a click on the Run All button: runAllAlgorithms() up to its first wait
RunAllAlgorithms ==
    /\ Len(alerts) < MaxAlerts
    /\ runAllPc = "idle"
    /\ IF Len(stateCities) < 2
       THEN Refused("Generate at least 2 cities") /\ UNCHANGED runAllPc
       ELSE IF isAnimating
       THEN UNCHANGED <<liveVars, ctlVars, runVars, alerts, runAllPc>>
       ELSE runGreedyAlgorithm /\ runAllPc' = "greedy done"
    /\ UNCHANGED <<stateCities, solverVars>>

\* runAllAlgorithms() after its first wait of a second
RunAllTwoOpt ==
    /\ runAllPc = "greedy done"
    /\ runTwoOptAlgorithm
    /\ runAllPc' = "twoOpt done"
    /\ UNCHANGED <<stateCities, solverVars>>

\* runAllAlgorithms() after its second wait
RunAllBruteForce ==
    /\ runAllPc = "twoOpt done"
    /\ IF Len(stateCities) <= OPTIMAL_CITY_LIMIT
       THEN runBruteForceAlgorithm
       ELSE UNCHANGED <<liveVars, ctlVars, runVars, alerts>>
    /\ runAllPc' = "idle"
    /\ UNCHANGED <<stateCities, solverVars>>

\* generateCities(count): a new list replaces state.cities and the stored
\* results are cleared; a live search that is pending keeps the list it was
\* handed
generateCities(cs) ==
    /\ stateCities' = cs
    /\ results' = NoResults
    /\ cities' = IF livePc = "init" THEN cs ELSE cities
    /\ UNCHANGED <<livePc, permutationsChecked, bestDistance, bestRoute,
                   isCancelled, progressLog, cancelledAt, renders, ctlVars, solverVars,
                   isAnimating, alerts, bruteForceController, diagnostics, runAllPc>>

\* a click on the Generate button, which disableButtons disables while the
\* busy flag is set
GenerateCitiesClick ==
    /\ ~isAnimating
    /\ \E cs \in GeneratedCityLists : generateCities(cs)
    /\ UNCHANGED grain

\* a change of the city-count slider, which nothing disables
CityCountChange ==
    /\ \E cs \in GeneratedCityLists : generateCities(cs)
    /\ UNCHANGED grain

\* runBruteForceLive called without the handler, on a list the handler
\* turns away
DirectStart ==
    /\ ~isAnimating
    /\ Len(cities) > OPTIMAL_CITY_LIMIT
    /\ LiveStart

AppNext ==
    \/ RunGreedyAlgorithm
    \/ RunTwoOptAlgorithm
    \/ RunBruteForceAlgorithm
    \/ ResumeBruteForceAlgorithm
    \/ RunAllAlgorithms
    \/ RunAllTwoOpt
    \/ RunAllBruteForce
    \/ GenerateCitiesClick
    \/ CityCountChange
    \/ LiveCancel
    \/ DirectStart

SpecApp == AppInit /\ [][AppNext]_vars

\* a timeout or animation frame that a pending search waits for does arrive
\* (every step of the search counts a permutation or returns)
SpecAppFair == SpecApp /\ WF_<<livePc, permutationsChecked>>(LiveTimerFires)

(***************************************************************************)
(* Properties of the page script.                                          *)
(***************************************************************************)
\* C17: with more than 9 cities runBruteForceLive rejects before it has
\* evaluated a permutation, rendered or called the progress callback, and in
\* the page the busy flag is clear afterwards: the handler turns such a list
\* away before it takes the flag, and it releases the flag after any
\* rejection.
C17_SizeLimitRejection ==
    /\ Len(cities) > 9 =>
          /\ livePc \in { "init", "rejected" }
          /\ permutationsChecked = 0
          /\ renders = 0
          /\ progressLog = <<>>
          /\ bestRoute = <<>>
          /\ ~isAnimating
    /\ livePc = "rejected" => ~isAnimating

\* with ten cities the Brute Force button was clicked, and runBruteForceLive
\* was called and rejected
C17_Witness ==
    /\ Len(cities) = 10
    /\ livePc = "rejected"
    /\ alerts = << "Brute Force limited to 9 cities maximum" >>
    /\ renders = 0
    /\ ~isAnimating


(***************************************************************************)
(* The busy flag of the page script.                                       *)
(***************************************************************************)
\* a handler of an algorithm button, or a stage of runAllAlgorithms, is
\* entered
HandlerStarted ==
    \/ RunGreedyAlgorithm
    \/ RunTwoOptAlgorithm
    \/ RunBruteForceAlgorithm
    \/ RunAllAlgorithms
    \/ RunAllTwoOpt
    \/ RunAllBruteForce

C32_AsStated ==
    /\ results.optimal > 0 /\ results.greedy > 0 =>
          ~LessByEpsilon(results.greedy, results.optimal)
    /\ results.optimal > 0 /\ results.twoOpt > 0 =>
          ~LessByEpsilon(results.twoOpt, results.optimal)
    /\ ~diagnostics

\* the same for the result of a search that ran through all permutations of
\* the list the page still holds
C32_AfterCompleteSearch ==
    results.optimal > 0 /\ cancelledAt = NoCancel /\ results.optimalOn = stateCities =>
       /\ results.greedy > 0 => ~LessByEpsilon(results.greedy, results.optimal)
       /\ results.twoOpt > 0 => ~LessByEpsilon(results.twoOpt, results.optimal)

\* C33: while the busy flag of a live search is held no handler replaces
\* state.cities, and a distance stored as the optimal result is that of a
\* search over the list the page holds.
C33_AsStated ==
    /\ [](results.optimal > 0 => results.optimalOn = stateCities)
    /\ [][isAnimating => stateCities' = stateCities]_vars

\* the second half of C33 alone: a stored optimal distance is that of a
\* search over the list the page holds
C33_StoredOnCurrentCities ==
    results.optimal > 0 => results.optimalOn = stateCities

\* C34: every started run releases the busy state.  Whenever the busy flag
\* is set, then, the timers of the live search being served, a state follows
\* in which isAnimating is false and state.bruteForceController is null,
\* whether the search ran to its end or was cancelled, and whatever was
\* clicked in between.
C34_RunReleasesBusyState ==
    isAnimating ~> (~isAnimating /\ ~bruteForceController)

\* a live search was cancelled with the Pause button, and the handler has
\* stored its result and released the flag and the controller
C34_Witness ==
    /\ livePc = "resolved"
    /\ isCancelled
    /\ cancelledAt < Len(Yielded[Len(cities)])
    /\ results.optimal > 0
    /\ ~isAnimating
    /\ ~bruteForceController

=============================================================================
